---- MODULE Spec2Model ----
(***************************************************************************)
(* Configuration selection and kernels of gemlite's two Triton matmul      *)
(* back-ends:                                                              *)
(*   gemm_splitK_A16fWnO16f_int32packing.py     (split-K tiled GEMM)       *)
(*   gemv_revsplitK_A16fWnO16f_int32packing.py  (reversed split-K GEMV)    *)
(*                                                                         *)
(* The state machines share the variables of the module:                   *)
(*   SpecSelect : one call of a forward entry point up to the choice of    *)
(*                the configuration the kernel is launched with (static    *)
(*                table, autotune candidates through kernel_config_pruner, *)
(*                default configuration);                                  *)
(*   SpecKernel : one launch of a kernel, its program instances running    *)
(*                concurrently and writing the output C;                   *)
(*   SpecModes  : the same launch over every A_load_order, W_group_mode    *)
(*                and form of the zeros;                                   *)
(*   SpecArgs   : the zeros and zero_is_scalar arguments the entry points  *)
(*                hand to the kernel;                                      *)
(*   SpecSwizzle: the tile each program instance id is mapped to.          *)
(***************************************************************************)
EXTENDS Integers, Naturals, Sequences, FiniteSets, TLC

VARIABLES
    pc,          \* position of the call
    matmul,      \* which back-end: "GEMM_SPLITK" or "GEMV_REVSPLITK"
    nargs,       \* problem shape M, N, K, group_size, elements_per_sample
    env,         \* ENABLE_AUTOTUNE, compute_capability
    cache,       \* GEMLITE_TRITON_CONFIG_CACHE[MATMUL_TYPE]: set of [sig, cfg]
    configs,     \* candidates handed to the autotuner, those examined so far
    used,        \* the pruner's set of keys already yielded
    yielded,     \* configurations yielded by the pruner, in order
    launched,    \* configuration the kernel is launched with, or NoConfig
    launch,      \* SpecKernel: parameters of the launch
    cmem,        \* SpecKernel: the output buffer, flat, row-major
    inst,        \* SpecKernel: per program instance, its progress
    trace        \* SpecKernel: global-memory accesses of the last step

selectVars == <<pc, matmul, nargs, env, cache, configs, used, yielded, launched>>
kernelVars == <<launch, cmem, inst, trace>>
vars == <<pc, matmul, nargs, env, cache, configs, used, yielded, launched,
          launch, cmem, inst, trace>>

Min(a, b) == IF a <= b THEN a ELSE b
Max(a, b) == IF a >= b THEN a ELSE b

\* triton.cdiv
cdiv(a, b) == (a + b - 1) \div b

NoConfig == [none |-> TRUE]

(***************************************************************************)
(* Bounds of the model.                                                    *)
(***************************************************************************)
\* longest candidate list handed to a pruner
MaxCandidates == 2

(***************************************************************************)
(* utils.py helpers used by the pruners.                                   *)
(***************************************************************************)
is_divisible_wrong(dividend, divisor) == TRUE

is_divisible(dividend, divisor) == dividend % divisor = 0

\* init_to_zero("c_ptr"): a pre-hook that zeroes C before the launch
init_to_zero == "init_to_zero"
NoHook == "None"

(***************************************************************************)
(* m = 2 ** int(math.ceil(math.log2(M)))                                   *)
(***************************************************************************)
Pow2(p) == 2 ^ p

RECURSIVE CeilLog2From(_, _)
CeilLog2From(x, p) == IF Pow2(p) >= x THEN p ELSE CeilLog2From(x, p + 1)

CeilLog2(x) == CeilLog2From(x, 0)

RoundedM_identity(M) == M

RoundedM(M) == Pow2(CeilLog2(M))

(***************************************************************************)
(* triton.Config: the tuning parameters (kwargs), num_stages, num_warps    *)
(* and the pre-hook run before every launch of the configuration.          *)
(***************************************************************************)
Config(kw, stages, warps, hook) ==
    [kwargs |-> kw, num_stages |-> stages, num_warps |-> warps, pre_hook |-> hook]

(***************************************************************************)
(* Split-K GEMM: get_autotune_config, get_default_config, OPT_CONFIGS.     *)
(***************************************************************************)
\* gpu_has_more_shared_memory() adds a fifth stage count
Stages(more_shared_memory) == IF more_shared_memory THEN {1, 2, 4, 5} ELSE {1, 2, 4}

splitK_grid_hook_always(sK) == init_to_zero

splitK_grid_hook(sK) == IF sK > 1 THEN init_to_zero ELSE NoHook

splitK_get_autotune_config(more_shared_memory) ==
    { Config([BLOCK_SIZE_M |-> bm, BLOCK_SIZE_N |-> bn, BLOCK_SIZE_K |-> bk,
              GROUP_SIZE_M |-> 8, SPLIT_K |-> sK, A_load_order |-> a,
              meta_evict_policy |-> "", atomic_mode |-> "relaxed"],
             s, w, splitK_grid_hook(sK)) :
        bm \in {16, 32, 64}, bn \in {32, 64, 128, 256}, bk \in {32, 64, 128, 256},
        w \in {4, 8}, s \in Stages(more_shared_memory),
        sK \in {1, 2, 4, 8, 16}, a \in {0, 2} }

splitK_default_kwargs(bn, a) ==
    [BLOCK_SIZE_M |-> 16, BLOCK_SIZE_N |-> bn, BLOCK_SIZE_K |-> 32, SPLIT_K |-> 2,
     GROUP_SIZE_M |-> 8, A_load_order |-> a, meta_evict_policy |-> "",
     atomic_mode |-> "relaxed"]

\* compute_capability: (8, 0) is A100, (9, 0) is H100, anything else the 4090 default
splitK_get_default_config(cc) ==
    IF cc = <<8, 0>> \/ cc = <<9, 0>>
    THEN <<Config(splitK_default_kwargs(64, 0), 1, 4, init_to_zero)>>
    ELSE <<Config(splitK_default_kwargs(32, 2), 1, 4, init_to_zero)>>

splitK_table_kwargs(bm, bn, bk, sK) ==
    [BLOCK_SIZE_M |-> bm, BLOCK_SIZE_N |-> bn, BLOCK_SIZE_K |-> bk, GROUP_SIZE_M |-> 8,
     SPLIT_K |-> sK, A_load_order |-> 2, meta_evict_policy |-> "",
     atomic_mode |-> "relaxed"]

\* rows of OPT_CONFIGS (QWEN_2_5_32B_TP1 / TP2), one per (K, group_size,
\* elements_per_sample) family and SPLIT_K value of the table
splitK_OPT_CONFIGS ==
    { [key |-> <<4, 7168, 5120, 128, 8>>,
       cfg |-> Config(splitK_table_kwargs(16, 32, 64, 4), 2, 2, init_to_zero)],
      [key |-> <<4, 5120, 5120, 128, 8>>,
       cfg |-> Config(splitK_table_kwargs(16, 32, 128, 4), 2, 4, init_to_zero)],
      [key |-> <<4, 5120, 27648, 128, 8>>,
       cfg |-> Config(splitK_table_kwargs(16, 32, 64, 8), 1, 2, init_to_zero)],
      [key |-> <<4, 55296, 5120, 32, 16>>,
       cfg |-> Config(splitK_table_kwargs(16, 64, 32, 8), 1, 4, init_to_zero)],
      [key |-> <<32, 55296, 5120, 32, 16>>,
       cfg |-> Config(splitK_table_kwargs(32, 64, 32, 8), 1, 4, init_to_zero)] }

(***************************************************************************)
(* GEMV: get_autotune_config, get_default_config, OPT_CONFIGS.             *)
(***************************************************************************)
gemv_kwargs(bn, bk) ==
    [BLOCK_SIZE_M |-> 1, BLOCK_SIZE_N |-> bn, BLOCK_SIZE_K |-> bk,
     meta_evict_policy |-> "", atomic_mode |-> "relaxed"]

gemv_get_autotune_config ==
    { Config(gemv_kwargs(bn, bk), s, w, init_to_zero) :
        bn \in {128, 256}, bk \in {16, 32, 64}, w \in {2, 4}, s \in {1, 2} }

gemv_get_default_config(cc) ==
    IF cc = <<8, 0>> \/ cc = <<9, 0>>
    THEN <<Config(gemv_kwargs(256, 16), 1, 2, init_to_zero)>>
    ELSE <<Config(gemv_kwargs(256, 32), 2, 4, init_to_zero)>>

gemv_OPT_CONFIGS ==
    { [key |-> <<1, 7168, 5120, 128, 8>>,
       cfg |-> Config(gemv_kwargs(256, 32), 1, 4, init_to_zero)],
      [key |-> <<1, 55296, 5120, 128, 8>>,
       cfg |-> Config(gemv_kwargs(128, 16), 1, 2, init_to_zero)],
      [key |-> <<1, 5120, 27648, 32, 16>>,
       cfg |-> Config(gemv_kwargs(256, 16), 1, 2, init_to_zero)] }

OPT_CONFIGS(mm) == IF mm = "GEMM_SPLITK" THEN splitK_OPT_CONFIGS ELSE gemv_OPT_CONFIGS

\* OPT_CONFIGS.get((M, N, K, group_size, elements_per_sample), None)
ShapeKey(na) == <<na.M, na.N, na.K, na.group_size, na.elements_per_sample>>

TableHits_ignored(mm, na) == {}

TableHits(mm, na) == { r \in OPT_CONFIGS(mm) : r.key = ShapeKey(na) }

(***************************************************************************)
(* Split-K kernel_config_pruner.                                           *)
(***************************************************************************)
\* _signature = str(tuple([m, n, k, g, e])), m the rounded-up M
Signature(na) == <<RoundedM(na.M), na.N, na.K, na.group_size, na.elements_per_sample>>

CacheHits(ch, na) == { r \in ch : r.sig = Signature(na) }

PopMeta_keep(d) == d

\* _config.pop('num_stages'), .pop('num_warps'), .pop('num_ctas')
PopMeta(d) == [f \in DOMAIN d \ {"num_stages", "num_warps", "num_ctas"} |-> d[f]]

splitK_stored_after_pops_no_copy(d) == PopMeta(d)

\* _config = copy.deepcopy(GEMLITE_TRITON_CONFIG_CACHE[MATMUL_TYPE][_signature]):
\* the pops act on the copy, the dict the cache holds afterwards is d
splitK_stored_after_pops(d) == d

\* the configuration yielded on a cache hit
splitK_cached_config(d) ==
    Config(PopMeta(d), d.num_stages, d.num_warps,
           IF PopMeta(d).SPLIT_K > 1 THEN init_to_zero ELSE NoHook)

\* block_size_m after the clamping by m (lines 50-52)
splitK_block_size_m(m, block_size_m) ==
    LET b0 == IF m <= 16 THEN 16 ELSE block_size_m
        b1 == IF m >= 32 THEN Min(Max(b0, 16), 32) ELSE b0
    IN  IF m >= 64 THEN Min(Max(b1, 32), 64) ELSE b1

splitK_split_k_unclamped(m, split_k) == split_k

\* split_k after the clamping by m (lines 55-57)
splitK_split_k(m, split_k) ==
    LET s0 == IF m >= 32 THEN Min(split_k, 8) ELSE split_k
    IN  IF m <= 16 THEN Max(s0, 2) ELSE s0

splitK_block_size_k_unclamped(g, block_size_k) == block_size_k

\* block_size_k = min(block_size_k, g) (line 66)
splitK_block_size_k(g, block_size_k) == Min(block_size_k, g)

splitK_divisible_nominal(config, na) ==
    is_divisible(na.K, config.kwargs.BLOCK_SIZE_K * config.kwargs.SPLIT_K)

\* the divisibility filter (line 69), on the clamped values
splitK_divisible(config, na) ==
    is_divisible(na.K,
        splitK_block_size_k(na.group_size, config.kwargs.BLOCK_SIZE_K)
          * splitK_split_k(RoundedM(na.M), config.kwargs.SPLIT_K))

splitK_rejected_area_after_clamp(config, na) ==
    \/ splitK_block_size_k(na.group_size, config.kwargs.BLOCK_SIZE_K)
         * config.kwargs.BLOCK_SIZE_N > 4096 * 8
    \/ ~ splitK_divisible(config, na)
    \/ (na.elements_per_sample = 1 /\ config.num_stages = 1)

splitK_rejected_no_stage_test(config, na) ==
    \/ config.kwargs.BLOCK_SIZE_K * config.kwargs.BLOCK_SIZE_N > 4096 * 8
    \/ ~ splitK_divisible(config, na)

\* the three `continue` filters of the loop body (lines 60-62, 69-70, 76);
\* the area test reads block_size_k before it is clamped to group_size
splitK_rejected(config, na) ==
    \/ config.kwargs.BLOCK_SIZE_K * config.kwargs.BLOCK_SIZE_N > 4096 * 8
    \/ ~ splitK_divisible(config, na)
    \/ (na.elements_per_sample = 1 /\ config.num_stages = 1)

splitK_key_no_split_k(config, na) ==
    <<splitK_block_size_m(RoundedM(na.M), config.kwargs.BLOCK_SIZE_M),
      config.kwargs.BLOCK_SIZE_N,
      splitK_block_size_k(na.group_size, config.kwargs.BLOCK_SIZE_K),
      config.kwargs.GROUP_SIZE_M,
      config.kwargs.A_load_order, config.kwargs.meta_evict_policy,
      config.kwargs.atomic_mode, config.num_stages, config.num_warps>>

\* _key (lines 82-85)
splitK_key(config, na) ==
    <<splitK_block_size_m(RoundedM(na.M), config.kwargs.BLOCK_SIZE_M),
      config.kwargs.BLOCK_SIZE_N,
      splitK_block_size_k(na.group_size, config.kwargs.BLOCK_SIZE_K),
      config.kwargs.GROUP_SIZE_M,
      splitK_split_k(RoundedM(na.M), config.kwargs.SPLIT_K),
      config.kwargs.A_load_order, config.kwargs.meta_evict_policy,
      config.kwargs.atomic_mode, config.num_stages, config.num_warps>>

splitK_pre_hook_nominal(config, na) ==
    IF config.kwargs.SPLIT_K > 1 THEN init_to_zero ELSE NoHook

\* pre_hook of the yielded configuration (line 105), from the clamped split_k
splitK_pre_hook(config, na) ==
    IF splitK_split_k(RoundedM(na.M), config.kwargs.SPLIT_K) > 1
    THEN init_to_zero ELSE NoHook

splitK_yield_stages_forced(config, na) ==
    Config([BLOCK_SIZE_M |-> splitK_block_size_m(RoundedM(na.M), config.kwargs.BLOCK_SIZE_M),
            BLOCK_SIZE_N |-> config.kwargs.BLOCK_SIZE_N,
            BLOCK_SIZE_K |-> splitK_block_size_k(na.group_size, config.kwargs.BLOCK_SIZE_K),
            GROUP_SIZE_M |-> config.kwargs.GROUP_SIZE_M,
            SPLIT_K      |-> splitK_split_k(RoundedM(na.M), config.kwargs.SPLIT_K),
            A_load_order |-> config.kwargs.A_load_order,
            meta_evict_policy |-> config.kwargs.meta_evict_policy,
            atomic_mode  |-> config.kwargs.atomic_mode],
           IF na.elements_per_sample > 1 THEN 1 ELSE config.num_stages,
           config.num_warps, splitK_pre_hook(config, na))

\* the triton.Config yielded for a candidate that passes (lines 91-106)
splitK_yield(config, na) ==
    Config([BLOCK_SIZE_M |-> splitK_block_size_m(RoundedM(na.M), config.kwargs.BLOCK_SIZE_M),
            BLOCK_SIZE_N |-> config.kwargs.BLOCK_SIZE_N,
            BLOCK_SIZE_K |-> splitK_block_size_k(na.group_size, config.kwargs.BLOCK_SIZE_K),
            GROUP_SIZE_M |-> config.kwargs.GROUP_SIZE_M,
            SPLIT_K      |-> splitK_split_k(RoundedM(na.M), config.kwargs.SPLIT_K),
            A_load_order |-> config.kwargs.A_load_order,
            meta_evict_policy |-> config.kwargs.meta_evict_policy,
            atomic_mode  |-> config.kwargs.atomic_mode],
           config.num_stages, config.num_warps, splitK_pre_hook(config, na))

(***************************************************************************)
(* GEMV kernel_config_pruner.                                              *)
(***************************************************************************)
gemv_block_size_n(n, block_size_n) == Min(n, block_size_n)

gemv_block_size_k_no_group(na, block_size_k) ==
    LET b0 == Min(na.K, block_size_k)
    IN  IF na.M > 1 THEN Min(b0, 32) ELSE b0

\* block_size_k after min(k, .), the m > 1 cap and min(., g) (lines 21, 28, 32)
gemv_block_size_k(na, block_size_k) ==
    LET b0 == Min(na.K, block_size_k)
        b1 == IF na.M > 1 THEN Min(b0, 32) ELSE b0
    IN  Min(b1, na.group_size)

gemv_rejected_no_group_test(config, na) ==
    ~ is_divisible(na.K, gemv_block_size_k(na, config.kwargs.BLOCK_SIZE_K) * 2)

\* the two `continue` filters (lines 35-36, 39-40), split_k = 2
gemv_rejected(config, na) ==
    \/ ~ (gemv_block_size_k(na, config.kwargs.BLOCK_SIZE_K) * 2 <= na.group_size)
    \/ ~ is_divisible(na.K, gemv_block_size_k(na, config.kwargs.BLOCK_SIZE_K) * 2)

gemv_key_no_block_n(config, na) ==
    <<1, gemv_block_size_k(na, config.kwargs.BLOCK_SIZE_K),
      config.kwargs.meta_evict_policy, config.kwargs.atomic_mode,
      config.num_stages, config.num_warps>>

\* _key (lines 42-45)
gemv_key(config, na) ==
    <<1, gemv_block_size_n(na.N, config.kwargs.BLOCK_SIZE_N),
      gemv_block_size_k(na, config.kwargs.BLOCK_SIZE_K),
      config.kwargs.meta_evict_policy, config.kwargs.atomic_mode,
      config.num_stages, config.num_warps>>

gemv_yield_no_hook(config, na) ==
    Config([BLOCK_SIZE_M |-> 1,
            BLOCK_SIZE_N |-> gemv_block_size_n(na.N, config.kwargs.BLOCK_SIZE_N),
            BLOCK_SIZE_K |-> gemv_block_size_k(na, config.kwargs.BLOCK_SIZE_K),
            meta_evict_policy |-> config.kwargs.meta_evict_policy,
            atomic_mode |-> config.kwargs.atomic_mode],
           config.num_stages, config.num_warps, NoHook)

\* the triton.Config yielded for a candidate that passes (lines 51-63)
gemv_yield(config, na) ==
    Config([BLOCK_SIZE_M |-> 1,
            BLOCK_SIZE_N |-> gemv_block_size_n(na.N, config.kwargs.BLOCK_SIZE_N),
            BLOCK_SIZE_K |-> gemv_block_size_k(na, config.kwargs.BLOCK_SIZE_K),
            meta_evict_policy |-> config.kwargs.meta_evict_policy,
            atomic_mode |-> config.kwargs.atomic_mode],
           config.num_stages, config.num_warps, config.pre_hook)

(***************************************************************************)
(* SpecSelect: inputs.                                                     *)
(***************************************************************************)
Shape(M, N, K, g, e) ==
    [M |-> M, N |-> N, K |-> K, group_size |-> g, elements_per_sample |-> e]

KeyShape(key) == Shape(key[1], key[2], key[3], key[4], key[5])

\* problem shapes: M on both sides of the pruner's thresholds 16, 32, 64,
\* K divisible and not divisible by the block products, a group_size that is
\* not a power of two, and the table's shapes
Shapes(mm) ==
    IF mm = "GEMM_SPLITK"
    THEN { Shape(M, 64, 512, g, 8) : M \in {3, 17, 64}, g \in {32, 128} }
         \cup { Shape(4, 64, 512, 128, 8) }
         \cup { Shape(3, 7168, 5120, 128, 8) }
         \cup { Shape(3, 64, 192, 48, 8) }
         \cup { Shape(M, 64, 96, 32, 8) : M \in {3, 17, 64} }
         \cup { Shape(M, 64, 512, 128, 1) : M \in {1, 64} }
         \cup { KeyShape(r.key) : r \in splitK_OPT_CONFIGS }
    ELSE { Shape(M, N, K, g, 8) :
             M \in {1, 3}, N \in {64, 384}, K \in {96, 512}, g \in {16, 32, 128} }
         \cup { Shape(1, 64, 96, 48, 8) }
         \cup { KeyShape(r.key) : r \in gemv_OPT_CONFIGS }

splitK_Shapes == Shapes("GEMM_SPLITK")

\* candidates a pruner is run on: members of the autotune grids
splitK_Candidates ==
    { c \in splitK_get_autotune_config(FALSE) :
        /\ c.kwargs.BLOCK_SIZE_M \in {16, 64}
        /\ c.kwargs.BLOCK_SIZE_N \in {32, 256}
        /\ c.kwargs.BLOCK_SIZE_K \in {32, 256}
        /\ c.kwargs.SPLIT_K \in {1, 16}
        /\ c.num_stages \in {1, 2}
        /\ c.num_stages = 1 => (c.kwargs.BLOCK_SIZE_N = 32 /\ c.kwargs.BLOCK_SIZE_M = 16)
        /\ c.num_warps = 4
        /\ c.kwargs.A_load_order = 0 }

gemv_Candidates ==
    { c \in gemv_get_autotune_config : c.num_warps = 4 /\ c.num_stages = 1 }

\* stored dicts of the configuration cache: legal and illegal for the shapes
CachedDict(bk, sK) ==
    [BLOCK_SIZE_M |-> 16, BLOCK_SIZE_N |-> 32, BLOCK_SIZE_K |-> bk, GROUP_SIZE_M |-> 8,
     SPLIT_K |-> sK, A_load_order |-> 2, meta_evict_policy |-> "",
     atomic_mode |-> "relaxed", num_stages |-> 2, num_warps |-> 4, num_ctas |-> 1]

OtherSignature == <<1, 1, 1, 1, 1>>

CacheContents(na) ==
    {{}} \cup (IF na.elements_per_sample = 1
              THEN {{[sig |-> OtherSignature, cfg |-> CachedDict(32, 2)]}} ELSE {})
         \cup { {[sig |-> Signature(na), cfg |-> CachedDict(bk, sK)]} :
                  bk \in {32, 256}, sK \in {1, 4} }

Environments ==
    {[autotune |-> TRUE, compute_capability |-> <<8, 9>>]}
    \cup { [autotune |-> FALSE, compute_capability |-> cc] :
             cc \in {<<8, 9>>, <<8, 0>>, <<9, 0>>} }

InitSelect ==
    /\ pc = "forward"
    /\ matmul \in {"GEMM_SPLITK", "GEMV_REVSPLITK"}
    /\ nargs \in Shapes(matmul)
    /\ env \in Environments
    /\ cache \in (IF matmul = "GEMM_SPLITK" THEN CacheContents(nargs) ELSE {{}})
    /\ configs = <<>>
    /\ used = {}
    /\ yielded = <<>>
    /\ launched = NoConfig
    /\ launch = NoConfig
    /\ cmem = <<>>
    /\ inst = <<>>
    /\ trace = <<>>

(***************************************************************************)
(* SpecSelect: the forward entry point up to the kernel launch.            *)
(***************************************************************************)
\* forward with a static-table entry, or with autotuning disabled: the
\* autotuner holds a single configuration and launches it (lines 732-751)
ForwardSingle ==
    /\ pc = "forward"
    /\ \/ /\ TableHits(matmul, nargs) # {}
          /\ \E r \in TableHits(matmul, nargs) : configs' = <<r.cfg>>
       \/ /\ TableHits(matmul, nargs) = {}
          /\ ~ env.autotune
          /\ configs' = (IF matmul = "GEMM_SPLITK"
                         THEN splitK_get_default_config(env.compute_capability)
                         ELSE gemv_get_default_config(env.compute_capability))
    /\ pc' = "single"
    /\ UNCHANGED <<matmul, nargs, env, cache, used, yielded, launched>>
    /\ UNCHANGED kernelVars

\* forward with no table entry and autotuning enabled: the candidates go
\* through kernel_config_pruner (early_config_prune)
ForwardAutotune ==
    /\ pc = "forward"
    /\ TableHits(matmul, nargs) = {}
    /\ env.autotune
    /\ pc' = "prune"
    /\ UNCHANGED <<matmul, nargs, env, cache, configs, used, yielded, launched>>
    /\ UNCHANGED kernelVars

\* split-K pruner, cache hit: one yield, then return (lines 25-39)
PrunerCacheHit ==
    /\ pc = "prune"
    /\ matmul = "GEMM_SPLITK"
    /\ \E r \in CacheHits(cache, nargs) :
         /\ yielded' = <<splitK_cached_config(r.cfg)>>
         /\ cache' = { IF x = r
                       THEN [sig |-> x.sig, cfg |-> splitK_stored_after_pops(x.cfg)]
                       ELSE x : x \in cache }
    /\ pc' = "pruned"
    /\ UNCHANGED <<matmul, nargs, env, configs, used, launched>>
    /\ UNCHANGED kernelVars

\* one iteration of the split-K pruner's loop over the candidates
splitK_kernel_config_pruner(config) ==
    /\ pc = "prune"
    /\ matmul = "GEMM_SPLITK"
    /\ CacheHits(cache, nargs) = {}
    /\ Len(configs) < MaxCandidates
    /\ configs' = Append(configs, config)
    /\ IF splitK_rejected(config, nargs) \/ splitK_key(config, nargs) \in used
       THEN UNCHANGED <<used, yielded>>
       ELSE /\ used' = used \cup {splitK_key(config, nargs)}
            /\ yielded' = Append(yielded, splitK_yield(config, nargs))
    /\ UNCHANGED <<pc, matmul, nargs, env, cache, launched>>
    /\ UNCHANGED kernelVars

\* one iteration of the GEMV pruner's loop over the candidates
gemv_kernel_config_pruner(config) ==
    /\ pc = "prune"
    /\ matmul = "GEMV_REVSPLITK"
    /\ Len(configs) < MaxCandidates
    /\ configs' = Append(configs, config)
    /\ IF gemv_rejected(config, nargs) \/ gemv_key(config, nargs) \in used
       THEN UNCHANGED <<used, yielded>>
       ELSE /\ used' = used \cup {gemv_key(config, nargs)}
            /\ yielded' = Append(yielded, gemv_yield(config, nargs))
    /\ UNCHANGED <<pc, matmul, nargs, env, cache, launched>>
    /\ UNCHANGED kernelVars

\* the candidate list is exhausted: the generator returns
PrunerEnd ==
    /\ pc = "prune"
    /\ matmul = "GEMM_SPLITK" => CacheHits(cache, nargs) = {}
    /\ pc' = "pruned"
    /\ UNCHANGED <<matmul, nargs, env, cache, configs, used, yielded, launched>>
    /\ UNCHANGED kernelVars

\* the autotuner launches the kernel with a pruned configuration (each one
\* is launched when it is benchmarked, the fastest on every later call)
LaunchPruned ==
    /\ pc = "pruned"
    /\ \E i \in 1..Len(yielded) : launched' = yielded[i]
    /\ pc' = "launched"
    /\ UNCHANGED <<matmul, nargs, env, cache, configs, used, yielded>>
    /\ UNCHANGED kernelVars

\* the autotuner with a single configuration launches it unpruned
LaunchSingle ==
    /\ pc = "single"
    /\ launched' = configs[1]
    /\ pc' = "launched"
    /\ UNCHANGED <<matmul, nargs, env, cache, configs, used, yielded>>
    /\ UNCHANGED kernelVars

NextSelect ==
    \/ ForwardSingle
    \/ ForwardAutotune
    \/ PrunerCacheHit
    \/ \E config \in splitK_Candidates : splitK_kernel_config_pruner(config)
    \/ \E config \in gemv_Candidates : gemv_kernel_config_pruner(config)
    \/ PrunerEnd
    \/ LaunchPruned
    \/ LaunchSingle

SpecSelect == InitSelect /\ [][NextSelect]_vars

(***************************************************************************)
(* SpecKernel: the tensors of one launch.  Sizes are small; the kernels    *)
(* are parametric in every size and block size.  All tensors are           *)
(* contiguous and row-major, as the forward functions allocate them.       *)
(***************************************************************************)
\* largest M and N of a launch, and the most program instances of a launch
MaxM == 3
MaxN == 3
MaxInstances == 4

RECURSIVE SumFn(_, _)
\* f[0] + ... + f[n-1]
SumFn(f, n) == IF n = 0 THEN 0 ELSE f[n - 1] + SumFn(f, n - 1)

\* activation x[m, k]
A_at(m, k) == 1 + ((2 * m + k) % 3)

\* the quantized code of weight element (k, n), in [0, 2^W_nbits)
W_code(k, n) == (k + 2 * n) % 4

\* W_q[r, n]: elements_per_sample codes packed into one 32-bit word
B_word(L, r, n) ==
    SumFn([j \in 0..(L.elements_per_sample - 1) |->
              W_code(r * L.elements_per_sample + j, n) * Pow2(L.W_nbits * j)],
          L.elements_per_sample)

\* scales[g, n] and zeros[g, n], one row per group of group_size rows of K
scales_at(g, n) == 1 + ((g + n) % 2)
zeros_at(g, n) == (g + 2 * n) % 3

(***************************************************************************)
(* utils.py device functions.                                              *)
(***************************************************************************)
swizzle_tile_full_groups(pid, M, N, BLOCK_SIZE_M, BLOCK_SIZE_N, GROUP_SIZE_M) ==
    LET grid_n     == cdiv(N, BLOCK_SIZE_N)
        width      == GROUP_SIZE_M * grid_n
        group_id   == pid \div width
    IN  [pid_m |-> group_id * GROUP_SIZE_M + (pid % GROUP_SIZE_M),
         pid_n |-> (pid % width) \div GROUP_SIZE_M]

\* swizzle_tile(pid, M, N, BLOCK_SIZE_M, BLOCK_SIZE_N, GROUP_SIZE_M)
swizzle_tile(pid, M, N, BLOCK_SIZE_M, BLOCK_SIZE_N, GROUP_SIZE_M) ==
    LET grid_m     == cdiv(M, BLOCK_SIZE_M)
        grid_n     == cdiv(N, BLOCK_SIZE_N)
        width      == GROUP_SIZE_M * grid_n
        group_id   == pid \div width
        group_size == Min(grid_m - group_id * GROUP_SIZE_M, GROUP_SIZE_M)
    IN  [pid_m |-> group_id * GROUP_SIZE_M + (pid % group_size),
         pid_n |-> (pid % width) \div group_size]

\* dequantize(b, scales, zeros, q_shift, ..., unpack_mask, ..., W_group_mode, ...)
dequantize(b, scales, zeros, q_shift, unpack_mask, W_group_mode) ==
    LET raw == (b \div Pow2(q_shift)) % (unpack_mask + 1)
    IN  CASE W_group_mode = 1 -> raw - zeros
          [] W_group_mode = 2 -> raw * scales
          [] W_group_mode \in {3, 4} -> (raw - zeros) * scales
          [] OTHER -> raw

(***************************************************************************)
(* The launch grid.                                                        *)
(***************************************************************************)
\* grid axis 0: triton.cdiv(M, BLOCK_SIZE_M) * triton.cdiv(N, BLOCK_SIZE_N)
GridTiles(L) == cdiv(L.M, L.BLOCK_SIZE_M) * cdiv(L.N, L.BLOCK_SIZE_N)

\* grid axis 1: SPLIT_K (tiled), triton.cdiv(K, BLOCK_SIZE_K * 2) (GEMV)
GridK(L) ==
    IF L.kind = "GEMM_SPLITK" THEN L.SPLIT_K ELSE cdiv(L.K, L.BLOCK_SIZE_K * 2)

Instances(L) == (0..(GridTiles(L) - 1)) \X (0..(GridK(L) - 1))

\* GROUP_SIZE_M of the swizzle: a tuning parameter (tiled), the literal 8 (GEMV)
SwizzleGroup(L) == IF L.kind = "GEMM_SPLITK" THEN L.GROUP_SIZE_M ELSE 8

Tile(L, pid) ==
    swizzle_tile(pid, L.M, L.N, L.BLOCK_SIZE_M, L.BLOCK_SIZE_N, SwizzleGroup(L))

\* lanes of a tile: (i, j) is row offs_m[i], column offs_n[j]
Lanes(L) == (0..(L.BLOCK_SIZE_M - 1)) \X (0..(L.BLOCK_SIZE_N - 1))

LaneRow(L, pid, lane) == Tile(L, pid).pid_m * L.BLOCK_SIZE_M + lane[1]
LaneCol(L, pid, lane) == Tile(L, pid).pid_n * L.BLOCK_SIZE_N + lane[2]

(***************************************************************************)
(* gemm_splitK_A16fWnO16f_int32packing_kernel, one program instance        *)
(* (pid, pid_k).  k is the iteration of the K loop, t a lane of offs_k.    *)
(***************************************************************************)
\* num_pid_k = tl.cdiv(K, BLOCK_SIZE_K * SPLIT_K)
splitK_num_pid_k(L) == cdiv(L.K, L.BLOCK_SIZE_K * L.SPLIT_K)

splitK_loop_body_advance_before_late_load(L) ==
    (IF L.A_load_order = 0 THEN <<"load_a">> ELSE <<>>)
      \o <<"load_b">>
      \o (IF L.A_load_order = 1 THEN <<"load_a">> ELSE <<>>)
      \o <<"load_meta">>
      \o (IF L.A_load_order = 2 THEN <<"load_a">> ELSE <<>>)
      \o <<"dequantize">>
      \o (IF L.A_load_order = 3 THEN <<"advance", "load_a", "dot">>
                                 ELSE <<"dot", "advance">>)

\* the statements of one iteration of the K loop, in program order
\* (lines 261-301); "advance" is a_ptrs += ..., b_ptrs += ...
splitK_loop_body(L) ==
    (IF L.A_load_order = 0 THEN <<"load_a">> ELSE <<>>)
      \o <<"load_b">>
      \o (IF L.A_load_order = 1 THEN <<"load_a">> ELSE <<>>)
      \o <<"load_meta">>
      \o (IF L.A_load_order = 2 THEN <<"load_a">> ELSE <<>>)
      \o <<"dequantize">>
      \o (IF L.A_load_order = 3 THEN <<"load_a">> ELSE <<>>)
      \o <<"dot", "advance">>

\* how often a statement occurs in one iteration
Occurrences(body, stmt) == Cardinality({ i \in 1..Len(body) : body[i] = stmt })

\* the number of pointer advances executed when iteration k executes stmt
splitK_advances(L, k, stmt) ==
    LET body == splitK_loop_body(L)
        at == CHOOSE i \in 1..Len(body) : body[i] = stmt
    IN  k * Occurrences(body, "advance")
          + Cardinality({ i \in 1..(at - 1) : body[i] = "advance" })

splitK_a_col_no_split(L, pid_k, k, t) ==
    (pid_k * L.BLOCK_SIZE_K + t) + k * L.BLOCK_SIZE_K

\* column of A read by lane t: offs_k, advanced by BLOCK_SIZE_K_U per iteration
splitK_a_col(L, pid_k, k, t) ==
    (pid_k * L.BLOCK_SIZE_K + t)
      + splitK_advances(L, k, "load_a") * (L.BLOCK_SIZE_K * L.SPLIT_K)

\* row of packed B read by lane t: offs_bk // elements_per_sample, advanced
\* by BLOCK_SIZE_K_P per iteration
splitK_b_row(L, pid_k, k, t) ==
    ((pid_k * L.BLOCK_SIZE_K + t) \div L.elements_per_sample)
      + splitK_advances(L, k, "load_b")
          * ((L.BLOCK_SIZE_K \div L.elements_per_sample) * L.SPLIT_K)

\* q_shift of lane t, computed once before the loop
splitK_q_shift(L, pid_k, t) ==
    ((pid_k * L.BLOCK_SIZE_K + t) % L.elements_per_sample) * L.W_nbits

\* k_m = ((k * SPLIT_K + pid_k) * stride_mul).to(tl.int32),
\* stride_mul = BLOCK_SIZE_K / group_size
splitK_k_m(L, pid_k, k) ==
    ((k * L.SPLIT_K + pid_k) * L.BLOCK_SIZE_K) \div L.group_size

UsesZeros_not_mode_4(L) == L.W_group_mode = 1 \/ L.W_group_mode = 3

\* if(W_group_mode >= 2) and if(W_group_mode == 1 or W_group_mode >= 3)
UsesScales(L) == L.W_group_mode >= 2
UsesZeros(L) == L.W_group_mode = 1 \/ L.W_group_mode >= 3

\* the value of a 1-element zeros tensor, and of every entry of a uniform one
zero_scalar == zeros_at(0, 1)

\* zeros[g, n] of the launch: a per-group, per-column tensor, uniform or not
zeros_tensor(L, g, n) == IF L.zeros_uniform THEN zero_scalar ELSE zeros_at(g, n)

ZeroAt_scalar_reads_tile(L, k_m, n) ==
    IF L.zero_is_scalar THEN zeros_at(k_m, n) ELSE zeros_tensor(L, k_m, n)

\* zeros as handed to dequantize: the scalar (tiled: zero_scalar =
\* tl.load(zeros_ptr) before the loop; GEMV: zeros = zeros_ptr), or the
\* tile row k_m
ZeroAt(L, k_m, n) == IF L.zero_is_scalar THEN zero_scalar ELSE zeros_tensor(L, k_m, n)

\* a metadata argument of dequantize: None, or the element for column n
None == [none |-> TRUE]
Tensor(v) == [value |-> v]

\* scales of iteration k: loaded if W_group_mode >= 2, else None
splitK_scales(L, pid_k, k, n) ==
    IF UsesScales(L) THEN Tensor(scales_at(splitK_k_m(L, pid_k, k), n)) ELSE None

\* zeros of iteration k: zero_scalar or the loaded tile if W_group_mode is 1
\* or >= 3, else None
splitK_zeros(L, pid_k, k, n) ==
    IF UsesZeros(L) THEN Tensor(ZeroAt(L, splitK_k_m(L, pid_k, k), n)) ELSE None

\* the dequantized weight element of lane t, column n, at iteration k
splitK_b(L, pid_k, k, t, n) ==
    dequantize(B_word(L, splitK_b_row(L, pid_k, k, t), n),
               splitK_scales(L, pid_k, k, n).value,
               splitK_zeros(L, pid_k, k, n).value,
               splitK_q_shift(L, pid_k, t), L.unpack_mask, L.W_group_mode)

\* a = tl.load(a_ptrs, mask=a_mask, other=0.)
splitK_a(L, m, col) == IF m < L.M THEN A_at(m, col) ELSE 0

\* acc[m, n] after the K loop (tl.dot accumulated over the iterations)
splitK_acc(L, pid_k, m, n) ==
    SumFn([k \in 0..(splitK_num_pid_k(L) - 1) |->
             SumFn([t \in 0..(L.BLOCK_SIZE_K - 1) |->
                      splitK_a(L, m, splitK_a_col(L, pid_k, k, t))
                        * splitK_b(L, pid_k, k, t, n)],
                   L.BLOCK_SIZE_K)],
          splitK_num_pid_k(L))

Access(t, r, c, op, by) == [t |-> t, r |-> r, c |-> c, op |-> op, by |-> by]

splitK_b_loads_masked(L, pid, pid_k) ==
    { Access("B", splitK_b_row(L, pid_k, k, t), LaneCol(L, pid, lane), "load", <<pid, pid_k>>) :
        k \in 0..(splitK_num_pid_k(L) - 1), t \in 0..(L.BLOCK_SIZE_K - 1),
        lane \in { l \in Lanes(L) : LaneCol(L, pid, l) < L.N } }

\* b = tl.load(b_ptrs, ...): no mask
splitK_b_loads(L, pid, pid_k) ==
    { Access("B", splitK_b_row(L, pid_k, k, t), LaneCol(L, pid, lane), "load", <<pid, pid_k>>) :
        k \in 0..(splitK_num_pid_k(L) - 1), t \in 0..(L.BLOCK_SIZE_K - 1),
        lane \in Lanes(L) }

splitK_a_loads_unmasked(L, pid, pid_k) ==
    { Access("A", LaneRow(L, pid, lane), splitK_a_col(L, pid_k, k, t), "load", <<pid, pid_k>>) :
        k \in 0..(splitK_num_pid_k(L) - 1), t \in 0..(L.BLOCK_SIZE_K - 1),
        lane \in Lanes(L) }

\* a = tl.load(a_ptrs, mask=a_mask, ...), a_mask = offs_am[:, None] < M
splitK_a_loads(L, pid, pid_k) ==
    { Access("A", LaneRow(L, pid, lane), splitK_a_col(L, pid_k, k, t), "load", <<pid, pid_k>>) :
        k \in 0..(splitK_num_pid_k(L) - 1), t \in 0..(L.BLOCK_SIZE_K - 1),
        lane \in { l \in Lanes(L) : LaneRow(L, pid, l) < L.M } }

\* scales / zeros tiles: tl.load(scales_ptrs + k_m * stride_meta_g), no mask;
\* the scalar zero is one load of zeros_ptr before the loop
splitK_meta_loads(L, pid, pid_k) ==
    (IF UsesScales(L)
     THEN { Access("scales", splitK_k_m(L, pid_k, k), LaneCol(L, pid, lane), "load", <<pid, pid_k>>) :
              k \in 0..(splitK_num_pid_k(L) - 1), lane \in Lanes(L) }
     ELSE {})
    \cup
    (IF L.zero_is_scalar
     THEN { Access("zeros", 0, 0, "load", <<pid, pid_k>>) }
     ELSE IF UsesZeros(L)
     THEN { Access("zeros", splitK_k_m(L, pid_k, k), LaneCol(L, pid, lane), "load", <<pid, pid_k>>) :
              k \in 0..(splitK_num_pid_k(L) - 1), lane \in Lanes(L) }
     ELSE {})

\* the lanes the output mask lets through:
\* (offs_cm[:, None] < M) & (offs_cn[None, :] < N)
splitK_c_mask(L, pid, lane) == LaneRow(L, pid, lane) < L.M /\ LaneCol(L, pid, lane) < L.N

\* scales_x[m], the per-row activation scale
scales_x_at(m) == 1 + (m % 2)

channel_scaled_both_as_weight_only(L, m, n, acc) ==
    CASE L.channel_scale_mode = 1 -> acc * scales_at(0, n)
      [] L.channel_scale_mode = 2 -> acc * (scales_x_at(m) * 1)
      [] L.channel_scale_mode = 3 -> acc * scales_at(0, n)
      [] OTHER -> acc

\* channel-wise scaling of acc[m, n] after the loop (both kernels):
\* scales_b = scales_ptr[offs_bn], scales_a = scales_a_ptr[offs_am]
channel_scaled(L, m, n, acc) ==
    CASE L.channel_scale_mode = 1 -> acc * scales_at(0, n)
      [] L.channel_scale_mode = 2 -> acc * (scales_x_at(m) * 1)
      [] L.channel_scale_mode = 3 -> acc * (scales_x_at(m) * scales_at(0, n))
      [] OTHER -> acc

\* channel-scale loads, masked by offs_bn < N and offs_am < M
channel_loads(L, pid, pid_k) ==
    (IF L.channel_scale_mode \in {1, 3}
     THEN { Access("scales", 0, LaneCol(L, pid, lane), "load", <<pid, pid_k>>) :
              lane \in { l \in Lanes(L) : LaneCol(L, pid, l) < L.N } }
     ELSE {})
    \cup
    (IF L.channel_scale_mode \in {2, 3}
     THEN { Access("scales_x", LaneRow(L, pid, lane), 0, "load", <<pid, pid_k>>) :
              lane \in { l \in Lanes(L) : LaneRow(L, pid, l) < L.M } }
     ELSE {})

\* the tile written to C: acc after the channel-wise scaling
splitK_out(L, pid_k, m, n) == channel_scaled(L, m, n, splitK_acc(L, pid_k, m, n))

tl_atomic_add(old, val) == old + val
tl_store(old, val) == val

splitK_c_op_store(L) == "store"
splitK_c_op_atomic(L) == "atomic_add"

\* if(SPLIT_K > 1): tl.atomic_add(...) else: tl.store(...)
splitK_c_op(L) == IF L.SPLIT_K > 1 THEN "atomic_add" ELSE "store"

ApplyWrite(op, old, val) ==
    IF op = "atomic_add" THEN tl_atomic_add(old, val) ELSE tl_store(old, val)

splitK_c_writes(L, pid, pid_k) ==
    { Access("C", LaneRow(L, pid, lane), LaneCol(L, pid, lane), splitK_c_op(L), <<pid, pid_k>>) :
        lane \in { l \in Lanes(L) : splitK_c_mask(L, pid, l) } }

\* flat offset of C[m, n]: offs_cm * stride_cm + offs_cn * stride_cn
c_offset(L, m, n) == m * L.N + n

\* C after the instance's write
splitK_c_after(L, pid, pid_k, c) ==
    [a \in DOMAIN c |->
        IF \E lane \in Lanes(L) :
              splitK_c_mask(L, pid, lane)
                /\ c_offset(L, LaneRow(L, pid, lane), LaneCol(L, pid, lane)) = a
        THEN LET lane == CHOOSE l \in Lanes(L) :
                            splitK_c_mask(L, pid, l)
                              /\ c_offset(L, LaneRow(L, pid, l), LaneCol(L, pid, l)) = a
             IN  ApplyWrite(splitK_c_op(L), c[a],
                            splitK_out(L, pid_k, LaneRow(L, pid, lane), LaneCol(L, pid, lane)))
        ELSE c[a]]

(***************************************************************************)
(* gemv_revsplitK_A16fWnO16f_int32packing_kernel, one program instance     *)
(* (pid, j): pid_k = 2 * j, two chunks of BLOCK_SIZE_K, chunk in {0, 1}.   *)
(***************************************************************************)
gemv_pid_k_no_double(j) == j

\* pid_k = tl.program_id(axis=1) * 2
gemv_pid_k(j) == j * 2

\* column of A read by lane t in a chunk: offs_k, advanced by BLOCK_SIZE_K
gemv_a_col(L, j, chunk, t) ==
    (gemv_pid_k(j) * L.BLOCK_SIZE_K + t) + chunk * L.BLOCK_SIZE_K

\* row of packed B read by lane t in a chunk
gemv_b_row(L, j, chunk, t) ==
    ((gemv_pid_k(j) * L.BLOCK_SIZE_K + t) \div L.elements_per_sample)
      + chunk * (L.BLOCK_SIZE_K \div L.elements_per_sample)

gemv_q_shift(L, j, t) ==
    ((gemv_pid_k(j) * L.BLOCK_SIZE_K + t) % L.elements_per_sample) * L.W_nbits

\* k_m = (pid_k * (BLOCK_SIZE_K / group_size)).to(tl.int32)
gemv_k_m(L, j) == (gemv_pid_k(j) * L.BLOCK_SIZE_K) \div L.group_size

\* scales of the instance: loaded once if W_group_mode >= 2, else None
gemv_scales(L, j, n) ==
    IF UsesScales(L) THEN Tensor(scales_at(gemv_k_m(L, j), n)) ELSE None

\* zeros of the instance: zeros_ptr or the tile loaded once if W_group_mode
\* is 1 or >= 3, else None
gemv_zeros(L, j, n) ==
    IF UsesZeros(L) THEN Tensor(ZeroAt(L, gemv_k_m(L, j), n)) ELSE None

\* the dequantized weight element of lane t, column n, in a chunk
gemv_b(L, j, chunk, t, n) ==
    dequantize(B_word(L, gemv_b_row(L, j, chunk, t), n),
               gemv_scales(L, j, n).value, gemv_zeros(L, j, n).value,
               gemv_q_shift(L, j, t), L.unpack_mask, L.W_group_mode)

\* acc[0, n] after the two chunks: tl.sum(a * b, axis=0), twice
gemv_acc(L, j, m, n) ==
    SumFn([chunk \in 0..1 |->
             SumFn([t \in 0..(L.BLOCK_SIZE_K - 1) |->
                      A_at(m, gemv_a_col(L, j, chunk, t)) * gemv_b(L, j, chunk, t, n)],
                   L.BLOCK_SIZE_K)],
          2)

\* loads of A, packed B and the metadata: none of them is masked
gemv_loads(L, pid, j) ==
    { Access("A", LaneRow(L, pid, lane), gemv_a_col(L, j, chunk, t), "load", <<pid, j>>) :
        chunk \in 0..1, t \in 0..(L.BLOCK_SIZE_K - 1), lane \in Lanes(L) }
    \cup
    { Access("B", gemv_b_row(L, j, chunk, t), LaneCol(L, pid, lane), "load", <<pid, j>>) :
        chunk \in 0..1, t \in 0..(L.BLOCK_SIZE_K - 1), lane \in Lanes(L) }
    \cup
    (IF UsesScales(L)
     THEN { Access("scales", gemv_k_m(L, j), LaneCol(L, pid, lane), "load", <<pid, j>>) :
              lane \in Lanes(L) }
     ELSE {})
    \cup
    (IF UsesZeros(L) /\ ~ L.zero_is_scalar
     THEN { Access("zeros", gemv_k_m(L, j), LaneCol(L, pid, lane), "load", <<pid, j>>) :
              lane \in Lanes(L) }
     ELSE {})

\* tl.atomic_add(c_ptrs, acc, sem=atomic_mode): no mask
gemv_c_writes(L, pid, j) ==
    { Access("C", LaneRow(L, pid, lane), LaneCol(L, pid, lane), "atomic_add", <<pid, j>>) :
        lane \in Lanes(L) }

\* the value a lane adds: its accumulator, or, for a column >= N, whatever
\* the unmasked loads beyond the row of B and of the metadata produced
gemv_lane_value(L, pid, j, lane, junk) ==
    IF LaneCol(L, pid, lane) < L.N
    THEN channel_scaled(L, LaneRow(L, pid, lane), LaneCol(L, pid, lane),
                        gemv_acc(L, j, LaneRow(L, pid, lane), LaneCol(L, pid, lane)))
    ELSE junk

\* C after the instance's atomic add; an offset past the buffer leaves C as it is
gemv_c_after(L, pid, j, c, junk) ==
    [a \in DOMAIN c |->
        IF \E lane \in Lanes(L) :
              c_offset(L, LaneRow(L, pid, lane), LaneCol(L, pid, lane)) = a
        THEN LET lane == CHOOSE l \in Lanes(L) :
                            c_offset(L, LaneRow(L, pid, l), LaneCol(L, pid, l)) = a
             IN  tl_atomic_add(c[a], gemv_lane_value(L, pid, j, lane, junk))
        ELSE c[a]]

(***************************************************************************)
(* SpecKernel: one launch.  The pre-hook runs, then the program instances  *)
(* of the grid run in any order, each one reading A, B and the metadata    *)
(* and writing its tile of C.                                              *)
(***************************************************************************)
\* pre_hook of the configuration launched (split-K: lines 36, 105, 127, 140;
\* GEMV: every configuration has it)
LaunchHook(kind, SPLIT_K) ==
    IF kind = "GEMM_SPLITK" /\ SPLIT_K = 1 THEN NoHook ELSE init_to_zero

Launch(kind, M, N, K, g, bm, bn, bk, sK, gsm, c0) ==
    [kind |-> kind, M |-> M, N |-> N, K |-> K, group_size |-> g,
     elements_per_sample |-> 2, W_nbits |-> 16, unpack_mask |-> 65535,
     BLOCK_SIZE_M |-> bm, BLOCK_SIZE_N |-> bn, BLOCK_SIZE_K |-> bk,
     SPLIT_K |-> sK, GROUP_SIZE_M |-> gsm,
     W_group_mode |-> 3, channel_scale_mode |-> 0, zero_is_scalar |-> FALSE,
     zeros_uniform |-> FALSE, A_load_order |-> 2,
     pre_hook |-> LaunchHook(kind, sK), c0 |-> c0]

\* torch.empty: the output buffer holds whatever was there
Uninitialized == {0, 5}

\* values an unmasked load outside a tensor's row can produce
Junk == {0, 1}

\* launches of the tiled kernel that satisfy its invariants
splitK_Launches ==
    { l \in { Launch("GEMM_SPLITK", M, N, K, g, 2, 2, 2, sK, gsm, c0) :
                M \in 1..MaxM, N \in 1..MaxN, K \in {4, 8}, g \in {2, 4},
                sK \in {1, 2, 4}, gsm \in {1, 2}, c0 \in Uninitialized } :
        /\ l.K % (l.BLOCK_SIZE_K * l.SPLIT_K) = 0
        /\ l.BLOCK_SIZE_K <= l.group_size
        /\ GridTiles(l) * GridK(l) <= MaxInstances }

\* launches of the GEMV kernel that satisfy its invariants
gemv_Launches ==
    { l \in { Launch("GEMV_REVSPLITK", M, N, K, 4, 1, 2, 2, 2, 8, c0) :
                M \in {1, 2}, N \in 1..MaxN, K \in {4, 8}, c0 \in Uninitialized } :
        /\ l.K % (l.BLOCK_SIZE_K * 2) = 0
        /\ l.BLOCK_SIZE_K * 2 <= l.group_size
        /\ GridTiles(l) * GridK(l) <= MaxInstances }

InitKernel ==
    /\ launch \in splitK_Launches \cup gemv_Launches
    /\ pc = "prehook"
    /\ cmem = [a \in 0..(launch.M * launch.N - 1) |-> launch.c0]
    /\ inst = [i \in Instances(launch) |-> "ready"]
    /\ trace = {}
    /\ matmul = launch.kind
    /\ nargs = Shape(launch.M, launch.N, launch.K, launch.group_size,
                     launch.elements_per_sample)
    /\ env = [autotune |-> FALSE, compute_capability |-> <<8, 9>>]
    /\ cache = {}
    /\ configs = <<>>
    /\ used = {}
    /\ yielded = <<>>
    /\ launched = NoConfig

\* init_to_zero("c_ptr"): nargs["c_ptr"].zero_()
PreHook ==
    /\ pc = "prehook"
    /\ cmem' = (IF launch.pre_hook = init_to_zero
                THEN [a \in DOMAIN cmem |-> 0] ELSE cmem)
    /\ pc' = "running"
    /\ UNCHANGED <<launch, inst, trace>>
    /\ UNCHANGED <<matmul, nargs, env, cache, configs, used, yielded, launched>>

\* one program instance of the tiled kernel
gemm_splitK_kernel(pid, pid_k) ==
    /\ pc = "running"
    /\ launch.kind = "GEMM_SPLITK"
    /\ inst[<<pid, pid_k>>] = "ready"
    /\ trace' = trace \cup splitK_a_loads(launch, pid, pid_k)
                      \cup splitK_b_loads(launch, pid, pid_k)
                      \cup splitK_meta_loads(launch, pid, pid_k)
                      \cup channel_loads(launch, pid, pid_k)
                      \cup splitK_c_writes(launch, pid, pid_k)
    /\ cmem' = splitK_c_after(launch, pid, pid_k, cmem)
    /\ inst' = [inst EXCEPT ![<<pid, pid_k>>] = "done"]
    /\ UNCHANGED <<launch, pc>>
    /\ UNCHANGED <<matmul, nargs, env, cache, configs, used, yielded, launched>>

\* one program instance of the GEMV kernel
gemv_revsplitK_kernel(pid, j) ==
    /\ pc = "running"
    /\ launch.kind = "GEMV_REVSPLITK"
    /\ inst[<<pid, j>>] = "ready"
    /\ trace' = trace \cup gemv_loads(launch, pid, j)
                      \cup channel_loads(launch, pid, j)
                      \cup gemv_c_writes(launch, pid, j)
    /\ \E junk \in Junk : cmem' = gemv_c_after(launch, pid, j, cmem, junk)
    /\ inst' = [inst EXCEPT ![<<pid, j>>] = "done"]
    /\ UNCHANGED <<launch, pc>>
    /\ UNCHANGED <<matmul, nargs, env, cache, configs, used, yielded, launched>>

NextKernel ==
    \/ PreHook
    \/ \E i \in DOMAIN inst : gemm_splitK_kernel(i[1], i[2])
    \/ \E i \in DOMAIN inst : gemv_revsplitK_kernel(i[1], i[2])

SpecKernel == InitKernel /\ [][NextKernel]_vars

\* every instance of the launch has run
Finished == pc = "running" /\ \A i \in DOMAIN inst : inst[i] = "done"

(***************************************************************************)
(* SpecModes: one launch, as SpecKernel, over the kernels' mode arguments: *)
(* A_load_order, W_group_mode, and zeros as a 1-element tensor, a uniform  *)
(* tensor or a varying tensor.                                             *)
(***************************************************************************)
\* zeros of a launch: <<zero_is_scalar, zeros_uniform>>
ZerosKinds == {<<TRUE, TRUE>>, <<FALSE, TRUE>>, <<FALSE, FALSE>>}

WithModes(L, order, mode, zk) ==
    [L EXCEPT !.A_load_order = order, !.W_group_mode = mode,
              !.zero_is_scalar = zk[1], !.zeros_uniform = zk[2]]

splitK_ModeLaunches ==
    { WithModes(L, order, mode, zk) :
        L \in { Launch("GEMM_SPLITK", 3, 3, 8, 4, 2, 2, 2, 1, 2, 5),
                Launch("GEMM_SPLITK", 2, 2, 8, 2, 2, 2, 2, 2, 1, 0) },
        order \in 0..3, mode \in 0..4, zk \in ZerosKinds }

gemv_ModeLaunches ==
    { WithModes(L, 2, mode, zk) :
        L \in { Launch("GEMV_REVSPLITK", 1, 4, 4, 4, 1, 2, 2, 2, 8, 5),
                Launch("GEMV_REVSPLITK", 2, 2, 8, 4, 1, 2, 2, 2, 8, 0) },
        mode \in 0..4, zk \in ZerosKinds }

\* the launch with another packing: elements_per_sample codes of W_nbits
\* bits in a 32-bit word, unpack_mask = 2 ** W_nbits - 1
WithPacking(L, e, nbits) ==
    [L EXCEPT !.elements_per_sample = e, !.W_nbits = nbits,
              !.unpack_mask = Pow2(nbits) - 1]

\* launches that satisfy the kernels' invariants with more codes in a word
\* than BLOCK_SIZE_K, or as many
PackedLaunches ==
    { WithModes(WithPacking(L, e, 32 \div e), 2, mode, <<FALSE, FALSE>>) :
        L \in { Launch("GEMV_REVSPLITK", 1, 2, 8, 4, 1, 2, 2, 2, 8, 0),
                Launch("GEMM_SPLITK", 2, 2, 8, 2, 2, 2, 2, 2, 1, 0) },
        e \in {2, 4}, mode \in {0, 3} }

\* launches over channel_scale_mode: tiled with SPLIT_K = 1 and 2, GEMV
ChannelLaunches ==
    { [L EXCEPT !.channel_scale_mode = c] :
        L \in { Launch("GEMM_SPLITK", 3, 3, 8, 4, 2, 2, 2, 1, 2, 5),
                Launch("GEMM_SPLITK", 2, 2, 8, 2, 2, 2, 2, 2, 1, 0),
                Launch("GEMV_REVSPLITK", 2, 2, 8, 4, 1, 2, 2, 2, 8, 0) },
        c \in 0..3 }

InitModes ==
    /\ launch \in splitK_ModeLaunches \cup gemv_ModeLaunches \cup PackedLaunches
                  \cup ChannelLaunches
    /\ pc = "prehook"
    /\ cmem = [a \in 0..(launch.M * launch.N - 1) |-> launch.c0]
    /\ inst = [i \in Instances(launch) |-> "ready"]
    /\ trace = {}
    /\ matmul = launch.kind
    /\ nargs = Shape(launch.M, launch.N, launch.K, launch.group_size,
                     launch.elements_per_sample)
    /\ env = [autotune |-> FALSE, compute_capability |-> <<8, 9>>]
    /\ cache = {}
    /\ configs = <<>>
    /\ used = {}
    /\ yielded = <<>>
    /\ launched = NoConfig

SpecModes == InitModes /\ [][NextKernel]_vars

(***************************************************************************)
(* SpecSwizzle: the first grid axis of a launch, pid = 0, 1, ..., each pid *)
(* mapped to its tile by swizzle_tile.                                     *)
(***************************************************************************)
MaxSwizzleM == 5
MaxSwizzleN == 4

SwizzleLaunches ==
    { [kind |-> "SWIZZLE", M |-> M, N |-> N, BLOCK_SIZE_M |-> bm,
       BLOCK_SIZE_N |-> bn, GROUP_SIZE_M |-> gsm] :
        M \in 1..MaxSwizzleM, N \in 1..MaxSwizzleN,
        bm \in {1, 2}, bn \in {1, 2}, gsm \in {1, 2, 3, 8} }

InitSwizzle ==
    /\ launch \in SwizzleLaunches
    /\ pc = "swizzle"
    /\ trace = {}
    /\ cmem = <<>>
    /\ inst = <<>>
    /\ matmul = "SWIZZLE"
    /\ nargs = Shape(launch.M, launch.N, 1, 1, 1)
    /\ env = [autotune |-> FALSE, compute_capability |-> <<8, 9>>]
    /\ cache = {}
    /\ configs = <<>>
    /\ used = {}
    /\ yielded = <<>>
    /\ launched = NoConfig

\* the next program instance of grid axis 0 computes its tile
ProgramTile ==
    /\ pc = "swizzle"
    /\ Cardinality(trace) < GridTiles(launch)
    /\ LET pid == Cardinality(trace)
           tile == swizzle_tile(pid, launch.M, launch.N, launch.BLOCK_SIZE_M,
                                launch.BLOCK_SIZE_N, launch.GROUP_SIZE_M)
       IN  trace' = trace \cup {[pid |-> pid, pid_m |-> tile.pid_m, pid_n |-> tile.pid_n]}
    /\ UNCHANGED <<launch, pc, cmem, inst>>
    /\ UNCHANGED <<matmul, nargs, env, cache, configs, used, yielded, launched>>

NextSwizzle == ProgramTile

SpecSwizzle == InitSwizzle /\ [][NextSwizzle]_vars

(***************************************************************************)
(* SpecArgs: the zeros argument of a forward call and the zero_is_scalar   *)
(* flag the entry point passes to its kernel.                              *)
(***************************************************************************)
MaxNumel == 4

\* element types of a zeros tensor
IntegerTypes == {"uint8", "int32"}
FloatTypes == {"float16", "float32"}

\* the zeros tensors a forward function is called with
ZerosTensors ==
    { [numel |-> n, dtype |-> d] : n \in 1..MaxNumel, d \in IntegerTypes \cup FloatTypes }

\* Tensor.item(): the element as a Python int or float
item(t) == [python |-> IF t.dtype \in IntegerTypes THEN "int" ELSE "float"]

\* isinstance(zeros, int) on what the GEMV forward function holds in zeros
isinstance_int(z) == "python" \in DOMAIN z /\ z.python = "int"

InitArgs ==
    /\ pc = "forward_args"
    /\ matmul \in {"GEMM_SPLITK", "GEMV_REVSPLITK"}
    /\ launch \in { [zeros |-> z, W_group_mode |-> w] :
                      z \in ZerosTensors, w \in 0..4 }
    /\ nargs = Shape(1, 1, 1, 1, 1)
    /\ env = [autotune |-> FALSE, compute_capability |-> <<8, 9>>]
    /\ cache = {}
    /\ configs = <<>>
    /\ used = {}
    /\ yielded = <<>>
    /\ launched = NoConfig
    /\ cmem = <<>>
    /\ inst = <<>>
    /\ trace = {}

\* the arguments the kernel is launched with; zeros_in is the caller's tensor
KernelArgs(zeros_in, zeros, zero_is_scalar, W_group_mode) ==
    [zeros_in |-> zeros_in, zeros |-> zeros, zero_is_scalar |-> zero_is_scalar,
     W_group_mode |-> W_group_mode]

\* split-K forward: zero_is_scalar = zeros.numel() == 1
gemm_splitK_forward ==
    /\ pc = "forward_args"
    /\ matmul = "GEMM_SPLITK"
    /\ launch' = KernelArgs(launch.zeros, launch.zeros, launch.zeros.numel = 1,
                            launch.W_group_mode)
    /\ pc' = "args_passed"
    /\ UNCHANGED <<cmem, inst, trace>>
    /\ UNCHANGED <<matmul, nargs, env, cache, configs, used, yielded, launched>>

\* GEMV forward: zeros = zeros.item() if (zeros.numel()==1) else zeros;
\* zero_is_scalar = isinstance(zeros, int)
gemv_revsplitK_forward ==
    /\ pc = "forward_args"
    /\ matmul = "GEMV_REVSPLITK"
    /\ LET zeros == IF launch.zeros.numel = 1 THEN item(launch.zeros) ELSE launch.zeros
       IN  launch' = KernelArgs(launch.zeros, zeros, isinstance_int(zeros),
                                launch.W_group_mode)
    /\ pc' = "args_passed"
    /\ UNCHANGED <<cmem, inst, trace>>
    /\ UNCHANGED <<matmul, nargs, env, cache, configs, used, yielded, launched>>

NextArgs == gemm_splitK_forward \/ gemv_revsplitK_forward

SpecArgs == InitArgs /\ [][NextArgs]_vars

\* C14 (as claimed): in both entry points the zero_is_scalar flag passed to
\* the kernel is true iff the caller's zeros tensor has exactly one element,
\* for integer and for floating-point zeros.
C14_ZeroIsScalarByNumel ==
    pc = "args_passed" => (launch.zero_is_scalar <=> launch.zeros_in.numel = 1)

(***************************************************************************)
(* Properties of a launch (SpecKernel, SpecSwizzle).                       *)
(***************************************************************************)
IsTiled == pc \in {"prehook", "running"} /\ launch.kind = "GEMM_SPLITK"
IsGemv == pc \in {"prehook", "running"} /\ launch.kind = "GEMV_REVSPLITK"

\* the cells of C
Cells(L) == (0..(L.M - 1)) \X (0..(L.N - 1))

\* the tile of instance pid covers cell (m, n)
Covers(L, pid, m, n) ==
    \E lane \in Lanes(L) : LaneRow(L, pid, lane) = m /\ LaneCol(L, pid, lane) = n

\* the partial result instance i computes for cell (m, n) of its tile
Partial(L, i, m, n) ==
    IF L.kind = "GEMM_SPLITK"
    THEN splitK_out(L, i[2], m, n)
    ELSE channel_scaled(L, m, n, gemv_acc(L, i[2], m, n))

\* the sum of the partial results of the instances that have run and target (m, n)
DoneSum(L, m, n) ==
    SumFn([pid \in 0..(GridTiles(L) - 1) |->
             SumFn([pk \in 0..(GridK(L) - 1) |->
                      IF inst[<<pid, pk>>] = "done" /\ Covers(L, pid, m, n)
                      THEN Partial(L, <<pid, pk>>, m, n) ELSE 0],
                   GridK(L))],
          GridTiles(L))

\* C at the start of the launch, after the pre-hook
StartValue(L) == IF L.pre_hook = init_to_zero THEN 0 ELSE L.c0

Accumulated ==
    \A cell \in Cells(launch) :
        cmem[c_offset(launch, cell[1], cell[2])]
          = StartValue(launch) + DoneSum(launch, cell[1], cell[2])

C5_TiledAccumulates ==
    (IsTiled /\ pc = "running" /\ launch.SPLIT_K > 1) => Accumulated

C5_GemvAccumulates == (IsGemv /\ pc = "running") => Accumulated

\* C5: in every interleaving of the instances of a launch that accumulates
\* with atomic adds (tiled kernel with SPLIT_K > 1, GEMV kernel), each cell
\* of C holds its value at launch start plus the sum of the partial results
\* of the instances that target it and have run, each counted once; at the
\* end, with C zeroed by the pre-hook, it holds exactly the full sum.
C5_AtomicAccumulation == C5_TiledAccumulates /\ C5_GemvAccumulates

\* the launch with the same problem and BLOCK_SIZE_K, and SPLIT_K = 1
Unsplit(L) == [L EXCEPT !.SPLIT_K = 1]

\* the (pid_k, k, t) whose A column is kk
ReadersOfK(L, kk) ==
    { x \in (0..(L.SPLIT_K - 1)) \X (0..(splitK_num_pid_k(L) - 1))
              \X (0..(L.BLOCK_SIZE_K - 1)) :
        splitK_a_col(L, x[1], x[2], x[3]) = kk }

WritesTo(m, n) == { a \in trace : a.t = "C" /\ a.r = m /\ a.c = n }

\* C7: with SPLIT_K = 1 no cell of C is written by two instances and every
\* write is a plain store; once all instances have run every cell in range
\* has been written exactly once and holds the kernel's result, whatever C
\* held before the launch.
C7_SingleStore ==
    (IsTiled /\ launch.SPLIT_K = 1) =>
      /\ \A a \in trace : a.t = "C" => a.op = "store"
      /\ \A cell \in Cells(launch) : Cardinality(WritesTo(cell[1], cell[2])) <= 1
      /\ Finished =>
           \A cell \in Cells(launch) :
              /\ Cardinality(WritesTo(cell[1], cell[2])) = 1
              /\ cmem[c_offset(launch, cell[1], cell[2])]
                   = splitK_out(launch, 0, cell[1], cell[2])

C7_Witness ==
    /\ IsTiled /\ Finished
    /\ launch.SPLIT_K = 1 /\ launch.c0 = 5 /\ GridTiles(launch) = 4
    /\ launch.M = 3 /\ launch.N = 3
    /\ cmem[c_offset(launch, 2, 2)] = splitK_out(launch, 0, 2, 2)
    /\ cmem[c_offset(launch, 2, 2)] # launch.c0

\* the tiles of the grid
GridTilePairs(L) ==
    (0..(cdiv(L.M, L.BLOCK_SIZE_M) - 1)) \X (0..(cdiv(L.N, L.BLOCK_SIZE_N) - 1))

TilesSeen == { <<a.pid_m, a.pid_n>> : a \in trace }

\* C8: the swizzle maps the pids of grid axis 0 one-to-one onto the tiles:
\* every pid lands on a tile of the grid, no two pids land on the same tile,
\* and once all pids have run every tile has been addressed.
C8_SwizzleBijection ==
    pc = "swizzle" =>
      /\ TilesSeen \subseteq GridTilePairs(launch)
      /\ Cardinality(TilesSeen) = Cardinality(trace)
      /\ Cardinality(trace) = GridTiles(launch) => TilesSeen = GridTilePairs(launch)

\* a full row-group followed by a narrower one
C8_Witness ==
    /\ pc = "swizzle"
    /\ launch.GROUP_SIZE_M = 2 /\ cdiv(launch.M, launch.BLOCK_SIZE_M) = 3
    /\ cdiv(launch.N, launch.BLOCK_SIZE_N) = 2
    /\ Cardinality(trace) = GridTiles(launch)
    /\ TilesSeen = GridTilePairs(launch)

C9_AMasked == IsTiled => \A a \in trace : a.t = "A" => a.r < launch.M
C9_CMasked ==
    IsTiled => \A a \in trace : a.t = "C" => (a.r < launch.M /\ a.c < launch.N)
C9_BMasked == IsTiled => \A a \in trace : a.t = "B" => a.c < launch.N
C9_MetaMasked ==
    IsTiled => \A a \in trace : a.t \in {"scales", "zeros"} => a.c < launch.N

\* C9: in the tiled kernel every load from A, from packed B and from the
\* scale / zero metadata and every write to C addresses a row < M and a
\* column < N, also in the tiles at the M and N boundary.
C9_AllAccessesMasked == C9_AMasked /\ C9_CMasked /\ C9_BMasked /\ C9_MetaMasked

\* the sum of the partial results of all instances that target (m, n)
FullSum(L, m, n) ==
    SumFn([pid \in 0..(GridTiles(L) - 1) |->
             SumFn([pk \in 0..(GridK(L) - 1) |->
                      IF Covers(L, pid, m, n)
                      THEN Partial(L, <<pid, pk>>, m, n) ELSE 0],
                   GridK(L))],
          GridTiles(L))

\* the A loads of all the instances of a launch
AllALoads(L) == UNION { splitK_a_loads(L, i[1], i[2]) : i \in Instances(L) }

\* the launch with the activation tile loaded first in the iteration
EarlyLoad(L) == [L EXCEPT !.A_load_order = 0]

\* C15: for A_load_order in {0, 1, 2, 3} an iteration of the tiled kernel's
\* K loop loads the activation tile exactly once, at the K offset of the
\* iteration, which is the offset of the weight tile it loads (the pointers
\* advance once, after the dot); the A elements read and the accumulated C
\* are those of A_load_order = 0.
C15_LoadOrderEquivalent ==
    IsTiled =>
      /\ launch.A_load_order \in 0..3
      /\ Occurrences(splitK_loop_body(launch), "load_a") = 1
      /\ \A k \in 0..(splitK_num_pid_k(launch) - 1) :
           /\ splitK_advances(launch, k, "load_a") = k
           /\ splitK_advances(launch, k, "load_b") = k
           /\ splitK_advances(launch, k, "dot") = k
      /\ Finished =>
           /\ { a \in trace : a.t = "A" } = AllALoads(EarlyLoad(launch))
           /\ \A cell \in Cells(launch) :
                cmem[c_offset(launch, cell[1], cell[2])]
                  = FullSum(EarlyLoad(launch), cell[1], cell[2])

\* a late-load launch with four iterations has finished
C15_Witness ==
    /\ IsTiled /\ Finished
    /\ launch.A_load_order = 3
    /\ splitK_num_pid_k(launch) = 4
    /\ cmem[c_offset(launch, 2, 2)] = FullSum(EarlyLoad(launch), 2, 2)
    /\ cmem[c_offset(launch, 2, 2)] # 0

\* the launch with a per-group, per-column zeros whose entries all equal
\* the scalar
UniformZeros(L) == [L EXCEPT !.zero_is_scalar = FALSE, !.zeros_uniform = TRUE]

gemv_Contributions(L, m, n, kk) ==
    { x \in Instances(L) \X (0..1) \X (0..(L.BLOCK_SIZE_K - 1)) :
        /\ Covers(L, x[1][1], m, n)
        /\ gemv_a_col(L, x[1][2], x[2], x[3]) = kk }

\* the columns of A an instance has loaded
ALoadedBy(i) == { a.c : a \in { b \in trace : b.t = "A" /\ b.by = i } }

\* C24: in a GEMV launch with K % (2 * BLOCK_SIZE_K) = 0 the second grid axis
\* has K / (2 * BLOCK_SIZE_K) instances, instance j processes exactly the
\* chunks [2j * BLOCK_SIZE_K, (2j + 1) * BLOCK_SIZE_K) and [(2j + 1) *
\* BLOCK_SIZE_K, (2j + 2) * BLOCK_SIZE_K), and over all j the chunks
\* partition [0, K): every reduction index is processed exactly once for
\* each output cell.
C24_GemvKCoverage ==
    (IsGemv /\ launch.K % (2 * launch.BLOCK_SIZE_K) = 0) =>
      /\ GridK(launch) = launch.K \div (2 * launch.BLOCK_SIZE_K)
      /\ \A j \in 0..(GridK(launch) - 1), chunk \in 0..1 :
           { gemv_a_col(launch, j, chunk, t) : t \in 0..(launch.BLOCK_SIZE_K - 1) }
             = ((2 * j + chunk) * launch.BLOCK_SIZE_K)
                 ..((2 * j + chunk + 1) * launch.BLOCK_SIZE_K - 1)
      /\ \A cell \in Cells(launch), kk \in 0..(launch.K - 1) :
           Cardinality(gemv_Contributions(launch, cell[1], cell[2], kk)) = 1
      /\ \A i \in DOMAIN inst :
           ALoadedBy(i) = (IF inst[i] = "done"
                           THEN (2 * i[2] * launch.BLOCK_SIZE_K)
                                  ..((2 * i[2] + 2) * launch.BLOCK_SIZE_K - 1)
                           ELSE {})
      /\ Finished => { a.c : a \in { b \in trace : b.t = "A" } } = 0..(launch.K - 1)

\* a GEMV launch with two instances along K has finished
C24_Witness ==
    /\ IsGemv /\ Finished
    /\ launch.K = 8 /\ GridK(launch) = 2 /\ launch.N = 2
    /\ ALoadedBy(<<0, 1>>) = 4..7
    /\ Cardinality(gemv_Contributions(launch, 0, 1, 5)) = 1

\* (pid_k, k, t): instance, iteration and lane of offs_k
splitK_Steps(L) ==
    (0..(L.SPLIT_K - 1)) \X (0..(splitK_num_pid_k(L) - 1)) \X (0..(L.BLOCK_SIZE_K - 1))

\* the reduction indices instance j processes, over its two chunks
gemv_Indices(L, j) ==
    { gemv_a_col(L, j, chunk, t) : chunk \in 0..1, t \in 0..(L.BLOCK_SIZE_K - 1) }

\* the rows of packed B an instance has loaded
BRowsLoadedBy(i) == { a.r : a \in { b \in trace : b.t = "B" /\ b.by = i } }

\* the packed row and the bit shift that hold the code of reduction index koff
PackedRow(L, koff) == koff \div L.elements_per_sample
PackedShift(L, koff) == (koff % L.elements_per_sample) * L.W_nbits

\* the code of koff is read where it is stored
ReadsOwnCode(L, koff, row, shift) ==
    /\ row = PackedRow(L, koff)
    /\ shift = PackedShift(L, koff)
    /\ shift + L.W_nbits <= 32

splitK_ReadsOwnCodes(L) ==
    \A x \in splitK_Steps(L) :
        ReadsOwnCode(L, splitK_a_col(L, x[1], x[2], x[3]),
                     splitK_b_row(L, x[1], x[2], x[3]), splitK_q_shift(L, x[1], x[3]))

gemv_ReadsOwnCodes(L) ==
    \A j \in 0..(GridK(L) - 1), chunk \in 0..1, t \in 0..(L.BLOCK_SIZE_K - 1) :
        ReadsOwnCode(L, gemv_a_col(L, j, chunk, t),
                     gemv_b_row(L, j, chunk, t), gemv_q_shift(L, j, t))

\* the packed rows that hold the codes of the reduction indices instance i
\* processes
OwnPackedRows(L, i) ==
    IF L.kind = "GEMM_SPLITK"
    THEN { PackedRow(L, splitK_a_col(L, i[2], k, t)) :
             k \in 0..(splitK_num_pid_k(L) - 1), t \in 0..(L.BLOCK_SIZE_K - 1) }
    ELSE { PackedRow(L, koff) : koff \in gemv_Indices(L, i[2]) }

\* C25 (as claimed): in both kernels, for every launch that satisfies the
\* stated invariants, in every iteration (tiled) and in both chunks (GEMV)
\* the code of reduction index koff is read from packed row
\* floor(koff / elements_per_sample) at bit shift (koff mod
\* elements_per_sample) * W_nbits, and the shift plus W_nbits never exceeds 32.
C25_PackedAddressing ==
    /\ IsTiled => splitK_ReadsOwnCodes(launch)
    /\ IsGemv => gemv_ReadsOwnCodes(launch)
    /\ (IsTiled \/ IsGemv) =>
         \A i \in DOMAIN inst :
            inst[i] = "done" => BRowsLoadedBy(i) = OwnPackedRows(launch, i)

\* the claim for the launches whose BLOCK_SIZE_K is a multiple of
\* elements_per_sample
C25_PackedAddressingAligned ==
    ((IsTiled \/ IsGemv) /\ launch.BLOCK_SIZE_K % launch.elements_per_sample = 0) =>
      /\ IsTiled => splitK_ReadsOwnCodes(launch)
      /\ IsGemv => gemv_ReadsOwnCodes(launch)
      /\ \A i \in DOMAIN inst :
            inst[i] = "done" => BRowsLoadedBy(i) = OwnPackedRows(launch, i)

\* the code unpacked from a packed word: (word >> shift) & unpack_mask
Unpacked(L, row, shift, n) == (B_word(L, row, n) \div Pow2(shift)) % (L.unpack_mask + 1)

\* the dequantized value the claim states for each W_group_mode
ClaimedValue(L, raw, sc, z) ==
    CASE L.W_group_mode = 0 -> raw
      [] L.W_group_mode = 1 -> raw - z.value
      [] L.W_group_mode = 2 -> raw * sc.value
      [] L.W_group_mode \in {3, 4} -> (raw - z.value) * sc.value

\* what dequantize is given and what it returns, against the claim
MetaByMode(L, sc, z, raw, b) ==
    /\ (sc # None) <=> (L.W_group_mode \in {2, 3, 4})
    /\ (z # None) <=> (L.W_group_mode \in {1, 3, 4})
    /\ b = ClaimedValue(L, raw, sc, z)

splitK_MetaByMode(L) ==
    \A x \in splitK_Steps(L), n \in 0..(L.N - 1) :
        MetaByMode(L, splitK_scales(L, x[1], x[2], n), splitK_zeros(L, x[1], x[2], n),
                   Unpacked(L, splitK_b_row(L, x[1], x[2], x[3]),
                            splitK_q_shift(L, x[1], x[3]), n),
                   splitK_b(L, x[1], x[2], x[3], n))

gemv_MetaByMode(L) ==
    \A j \in 0..(GridK(L) - 1), chunk \in 0..1, t \in 0..(L.BLOCK_SIZE_K - 1),
       n \in 0..(L.N - 1) :
        MetaByMode(L, gemv_scales(L, j, n), gemv_zeros(L, j, n),
                   Unpacked(L, gemv_b_row(L, j, chunk, t), gemv_q_shift(L, j, t), n),
                   gemv_b(L, j, chunk, t, n))

\* the scale and zero-point loads an instance has issued
MetaLoadsBy(i) == { a \in trace : a.t \in {"scales", "zeros"} /\ a.by = i }

\* the read of a 1-element zeros, before the loop of the tiled kernel
ScalarZeroLoad(L, i) ==
    IF L.kind = "GEMM_SPLITK" /\ L.zero_is_scalar
    THEN {Access("zeros", 0, 0, "load", i)} ELSE {}

\* C26 (as claimed): in both kernels dequantization is given a scale tile
\* iff W_group_mode is in {2, 3, 4} and a zero-point (scalar or tile) iff it
\* is in {1, 3, 4}; in mode 0 neither is loaded; the dequantized value is
\* raw (mode 0), raw - zero (mode 1), raw * scale (mode 2), (raw - zero) *
\* scale (modes 3 and 4).
C26_MetaByMode ==
    (pc \in {"prehook", "running"} /\ launch.channel_scale_mode = 0) =>
      /\ IsTiled => splitK_MetaByMode(launch)
      /\ IsGemv => gemv_MetaByMode(launch)
      /\ launch.W_group_mode = 0 => \A i \in DOMAIN inst : MetaLoadsBy(i) = {}

\* C26 (amended): as claimed, except that in mode 0 no scale and no
\* zero-point tile is loaded and none is given to dequantization, while the
\* tiled kernel reads a 1-element zeros once before its loop whatever the
\* mode.
C26_MetaByModeButScalarRead ==
    (pc \in {"prehook", "running"} /\ launch.channel_scale_mode = 0) =>
      /\ IsTiled => splitK_MetaByMode(launch)
      /\ IsGemv => gemv_MetaByMode(launch)
      /\ launch.W_group_mode = 0 =>
           \A i \in DOMAIN inst :
              MetaLoadsBy(i) = (IF inst[i] = "done" THEN ScalarZeroLoad(launch, i) ELSE {})

\* a tiled launch in mode 0 with a 1-element zeros has finished: the scalar
\* was read and dequantize was given no zero-point
C26_Witness ==
    /\ IsTiled /\ Finished
    /\ launch.W_group_mode = 0 /\ launch.zero_is_scalar
    /\ MetaLoadsBy(<<0, 0>>) = {Access("zeros", 0, 0, "load", <<0, 0>>)}
    /\ splitK_zeros(launch, 0, 0, 0) = None
    /\ splitK_b(launch, 0, 0, 1, 1) = W_code(1, 1)

\* the unscaled dot product of row m of A and column n of the dequantized
\* weights: the accumulators of the instances along K, summed
Dot(L, m, n) ==
    SumFn([pk \in 0..(GridK(L) - 1) |->
             IF L.kind = "GEMM_SPLITK"
             THEN splitK_acc(L, pk, m, n) ELSE gemv_acc(L, pk, m, n)],
          GridK(L))

\* the per-column weight scale s_w[n] and the per-row activation scale s_x[m]
s_w(n) == scales_at(0, n)
s_x(m) == scales_x_at(m)

\* the output the claim states for each channel_scale_mode
ClaimedOutput(L, m, n) ==
    CASE L.channel_scale_mode = 0 -> Dot(L, m, n)
      [] L.channel_scale_mode = 1 -> s_w(n) * Dot(L, m, n)
      [] L.channel_scale_mode = 2 -> s_x(m) * Dot(L, m, n)
      [] L.channel_scale_mode = 3 -> s_x(m) * s_w(n) * Dot(L, m, n)

C30_GemvInRange ==
    IsGemv =>
      \A a \in trace :
         /\ a.t = "C" => (a.op = "atomic_add" /\ a.r < launch.M /\ a.c < launch.N)
         /\ a.t \in {"B", "scales", "zeros"} => a.c < launch.N

\* the claim for the launches whose N is a multiple of BLOCK_SIZE_N
C30_GemvInRangeAligned ==
    (IsGemv /\ launch.N % launch.BLOCK_SIZE_N = 0) =>
      \A a \in trace :
         /\ a.t = "C" => (a.op = "atomic_add" /\ a.r < launch.M /\ a.c < launch.N)
         /\ a.t \in {"B", "scales", "zeros"} => a.c < launch.N

(***************************************************************************)
(* Properties of the configuration selection (SpecSelect).                 *)
(***************************************************************************)
YieldedSet == { yielded[i] : i \in 1..Len(yielded) }

\* legality of a split-K configuration for a shape
splitK_Legal(c, na) ==
    /\ na.K % (c.kwargs.BLOCK_SIZE_K * c.kwargs.SPLIT_K) = 0
    /\ c.kwargs.BLOCK_SIZE_K <= na.group_size

\* legality of a GEMV configuration for a shape
gemv_Legal(c, na) ==
    /\ c.kwargs.BLOCK_SIZE_M = 1
    /\ c.kwargs.BLOCK_SIZE_K * 2 <= na.group_size
    /\ c.kwargs.BLOCK_SIZE_K <= na.group_size
    /\ na.K % (c.kwargs.BLOCK_SIZE_K * 2) = 0

\* C1 (as claimed): every configuration the split-K pruner yields, on the
\* search path and on the cache-hit path, for any cache content, satisfies
\* K % (BLOCK_SIZE_K * SPLIT_K) = 0 and BLOCK_SIZE_K <= group_size.
C1_SplitKYieldsLegal ==
    matmul = "GEMM_SPLITK" => \A c \in YieldedSet : splitK_Legal(c, nargs)

\* C2: every configuration the GEMV pruner yields has BLOCK_SIZE_M = 1,
\* BLOCK_SIZE_K * 2 <= group_size, BLOCK_SIZE_K <= group_size and
\* K % (BLOCK_SIZE_K * 2) = 0.
C2_GemvYieldsLegal ==
    matmul = "GEMV_REVSPLITK" => \A c \in YieldedSet : gemv_Legal(c, nargs)

\* C2 witness: the GEMV pruner has yielded a configuration whose BLOCK_SIZE_K
\* was clamped below the candidate's nominal value.
C2_Witness ==
    /\ matmul = "GEMV_REVSPLITK"
    /\ \E i \in 1..Len(configs) :
         /\ ~ gemv_rejected(configs[i], nargs)
         /\ gemv_yield(configs[i], nargs) \in YieldedSet
         /\ gemv_yield(configs[i], nargs).kwargs.BLOCK_SIZE_K
              < configs[i].kwargs.BLOCK_SIZE_K

\* the effective tuple of a configuration: everything but the pre-hook
EffectiveTuple(c) ==
    [kwargs |-> c.kwargs, num_stages |-> c.num_stages, num_warps |-> c.num_warps]

PrunerRejected(c) ==
    IF matmul = "GEMM_SPLITK" THEN splitK_rejected(c, nargs) ELSE gemv_rejected(c, nargs)

PrunerYield(c) ==
    IF matmul = "GEMM_SPLITK" THEN splitK_yield(c, nargs) ELSE gemv_yield(c, nargs)

\* the configurations of the candidates that pass the filters, each effective
\* tuple kept at its first occurrence in candidate order
RECURSIVE FirstOccurrences(_, _)
FirstOccurrences(cands, acc) ==
    IF cands = <<>> THEN acc
    ELSE LET c == Head(cands)
             dup == \E j \in 1..Len(acc) :
                       EffectiveTuple(acc[j]) = EffectiveTuple(PrunerYield(c))
         IN  FirstOccurrences(Tail(cands),
                 IF PrunerRejected(c) \/ dup THEN acc ELSE Append(acc, PrunerYield(c)))

\* the call runs the pruner's loop over the candidates
OnSearchPath ==
    /\ env.autotune
    /\ TableHits(matmul, nargs) = {}
    /\ matmul = "GEMM_SPLITK" => CacheHits(cache, nargs) = {}

\* C3: in one run of either pruner no two yielded configurations are equal
\* as effective tuples, and candidates that reduce to the same tuple produce
\* one yield, the first in candidate order.
C3_NoDuplicateYields ==
    /\ \A i, j \in 1..Len(yielded) :
         i # j => EffectiveTuple(yielded[i]) # EffectiveTuple(yielded[j])
    /\ OnSearchPath => yielded = FirstOccurrences(configs, <<>>)

\* C3 witness: two candidates with different nominal values reduced to the
\* same effective tuple and one configuration was yielded for them.
C3_Witness ==
    /\ Len(configs) = 2
    /\ configs[1] # configs[2]
    /\ ~ PrunerRejected(configs[1])
    /\ ~ PrunerRejected(configs[2])
    /\ EffectiveTuple(PrunerYield(configs[1])) = EffectiveTuple(PrunerYield(configs[2]))
    /\ Len(yielded) = 1

\* configurations a kernel can be launched with in the current state
Launchable ==
    YieldedSet
      \cup (IF launched = NoConfig THEN {} ELSE {launched})
      \cup (IF pc = "single" THEN {configs[1]} ELSE {})

\* C4: a split-K configuration that is yielded, cached, default or from the
\* table carries the init_to_zero pre-hook iff its effective SPLIT_K > 1;
\* every GEMV configuration (grid candidate, pruner output, default, table)
\* carries it.
C4_ZeroHookWhenAtomic ==
    /\ matmul = "GEMM_SPLITK" =>
         \A c \in Launchable : (c.pre_hook = init_to_zero) <=> (c.kwargs.SPLIT_K > 1)
    /\ matmul = "GEMV_REVSPLITK" =>
         \A c \in Launchable \cup { configs[i] : i \in 1..Len(configs) } :
            c.pre_hook = init_to_zero

\* C4 witness: a candidate with nominal SPLIT_K = 1 was yielded with the
\* effective SPLIT_K = 2 and launched.
C4_Witness ==
    /\ matmul = "GEMM_SPLITK"
    /\ pc = "launched"
    /\ launched.kwargs.SPLIT_K = 2
    /\ \E i \in 1..Len(configs) :
         configs[i].kwargs.SPLIT_K = 1 /\ splitK_yield(configs[i], nargs) = launched

\* C10 (as claimed): a kernel is never launched with a configuration that
\* violates the divisibility invariant or the group-size bound.
C10_LaunchedLegal ==
    pc = "launched" =>
        IF matmul = "GEMM_SPLITK"
        THEN splitK_Legal(launched, nargs)
        ELSE gemv_Legal(launched, nargs)

\* the least power of two >= M
LeastPow2(M) ==
    CHOOSE p \in { 2 ^ i : i \in 0..8 } :
        p >= M /\ \A q \in { 2 ^ i : i \in 0..8 } : q >= M => p <= q

\* the cache entries stored for the problem: signature (m, N, K, group_size,
\* elements_per_sample), m the least power of two >= M
CacheEntries(ch, na) ==
    { r \in ch : r.sig = <<LeastPow2(na.M), na.N, na.K, na.group_size,
                           na.elements_per_sample>> }

\* the static-table entries for the exact shape tuple
TableEntries ==
    { r \in OPT_CONFIGS(matmul) :
        r.key = <<nargs.M, nargs.N, nargs.K, nargs.group_size,
                  nargs.elements_per_sample>> }

\* a stored dict without its non-tuning fields
StoredTuning(d) ==
    [f \in DOMAIN d \ {"num_stages", "num_warps", "num_ctas"} |-> d[f]]

\* the split-K pruner has been called
SplitKPrunerCalled ==
    /\ matmul = "GEMM_SPLITK"
    /\ env.autotune
    /\ TableEntries = {}
    /\ pc # "forward"

\* C11: when the cache holds an entry for the problem signature the split-K
\* pruner examines no candidate and yields exactly one configuration, whose
\* tuning parameters are the stored dict without num_stages, num_warps and
\* num_ctas and whose num_stages and num_warps are the stored ones; when it
\* holds none, the yields are the filtered candidates.
C11_CacheHitYieldsStored ==
    SplitKPrunerCalled =>
      IF CacheEntries(cache, nargs) # {}
      THEN /\ configs = <<>> /\ used = {}
           /\ pc = "prune" => yielded = <<>>
           /\ pc # "prune" =>
                /\ Len(yielded) = 1
                /\ \E r \in CacheEntries(cache, nargs) :
                     /\ yielded[1].kwargs = StoredTuning(r.cfg)
                     /\ yielded[1].num_stages = r.cfg.num_stages
                     /\ yielded[1].num_warps = r.cfg.num_warps
      ELSE yielded = FirstOccurrences(configs, <<>>)

C11_Witness ==
    /\ SplitKPrunerCalled /\ pc = "pruned"
    /\ CacheEntries(cache, nargs) # {}
    /\ Len(yielded) = 1
    /\ yielded[1].num_stages = 2 /\ yielded[1].kwargs.BLOCK_SIZE_K = 256
    /\ "num_ctas" \notin DOMAIN yielded[1].kwargs

\* two problems that differ at most in M
SameButM(a, b) ==
    /\ a.N = b.N /\ a.K = b.K /\ a.group_size = b.group_size
    /\ a.elements_per_sample = b.elements_per_sample

\* C12: the cache signature of the split-K pruner is (m, N, K, group_size,
\* elements_per_sample) with m the least power of two >= M: the pruner takes
\* the cache-hit path exactly when the cache holds an entry under that
\* signature, problems that differ only in M with the same m get the same
\* entry, and problems that differ in N, K, group_size or
\* elements_per_sample (or in m) share none.
C12_CacheSignature ==
    (SplitKPrunerCalled /\ pc # "prune") =>
      /\ Signature(nargs) = <<LeastPow2(nargs.M), nargs.N, nargs.K,
                              nargs.group_size, nargs.elements_per_sample>>
      /\ (CacheEntries(cache, nargs) # {})
            <=> (configs = <<>> /\ Len(yielded) = 1
                   /\ \E r \in cache : yielded[1] = splitK_cached_config(r.cfg))
      /\ \A other \in splitK_Shapes :
            IF SameButM(other, nargs) /\ LeastPow2(other.M) = LeastPow2(nargs.M)
            THEN CacheHits(cache, other) = CacheHits(cache, nargs)
            ELSE CacheHits(cache, other) \cap CacheHits(cache, nargs) = {}

\* M = 3 hits the entry stored under m = 4, which M = 4 hits too
C12_Witness ==
    /\ SplitKPrunerCalled /\ pc = "pruned"
    /\ nargs.M = 3
    /\ \E r \in cache : r.sig[1] = 4 /\ yielded = <<splitK_cached_config(r.cfg)>>
    /\ \E other \in splitK_Shapes :
         other.M = 4 /\ SameButM(other, nargs)
           /\ CacheHits(cache, other) = CacheHits(cache, nargs)

\* the autotune grid of the entry point (either stage list)
AutotuneGrid ==
    [GEMM_SPLITK |-> splitK_get_autotune_config(TRUE),
     GEMV_REVSPLITK |-> gemv_get_autotune_config]

DefaultConfig ==
    IF matmul = "GEMM_SPLITK"
    THEN splitK_get_default_config(env.compute_capability)
    ELSE gemv_get_default_config(env.compute_capability)

splitK_NoValidConfig ==
    { na \in splitK_Shapes :
        \A c \in splitK_get_autotune_config(TRUE) : splitK_rejected(c, na) }

gemv_NoValidConfig ==
    { na \in Shapes("GEMV_REVSPLITK") :
        \A c \in gemv_get_autotune_config : gemv_rejected(c, na) }

\* C17 (as claimed): when no candidate satisfies the constraints for the
\* shape, a pruner that has run ends in a rejection, an outcome distinct
\* from its normal return, and not with an empty sequence of yields.
C17_EmptyIsRejected ==
    (/\ OnSearchPath
     /\ nargs \in splitK_NoValidConfig \cup gemv_NoValidConfig
     /\ configs # <<>>
     /\ pc \notin {"forward", "prune"}) => pc = "rejected"

\* BLOCK_SIZE_M as the claim states it
ClaimedBlockSizeM(m, nominal) ==
    IF m <= 16 THEN 16
    ELSE IF m = 32 THEN Min(Max(nominal, 16), 32)
    ELSE Min(Max(nominal, 32), 64)

SplitKSearch == matmul = "GEMM_SPLITK" /\ OnSearchPath

\* C18 (as claimed): every configuration the split-K pruner yields on the
\* search path has BLOCK_SIZE_M in [16, 64], equal to 16 for m <= 16, to the
\* candidate's nominal value clamped to [16, 32] for m = 32 and to the
\* nominal value clamped to [32, 64] for m >= 64.
C18_BlockSizeMClamp ==
    SplitKSearch =>
      \A y \in YieldedSet :
        /\ y.kwargs.BLOCK_SIZE_M \in 16..64
        /\ \E i \in 1..Len(configs) :
             /\ ~ splitK_rejected(configs[i], nargs)
             /\ y = [splitK_yield(configs[i], nargs) EXCEPT
                       !.kwargs.BLOCK_SIZE_M =
                          ClaimedBlockSizeM(LeastPow2(nargs.M),
                                            configs[i].kwargs.BLOCK_SIZE_M)]

\* for every M exactly one of m <= 16, m >= 32 holds
OneRegimePerM ==
    \A M \in 1..256 :
        (RoundedM(M) <= 16 \/ RoundedM(M) >= 32)
          /\ ~ (RoundedM(M) <= 16 /\ RoundedM(M) >= 32)

\* C19: on the search path of the split-K pruner every yielded configuration
\* has SPLIT_K <= 8 when m >= 32 and SPLIT_K >= 2 when m <= 16, and exactly
\* one of the two regimes applies to every M.
C19_SplitKClamp ==
    SplitKSearch =>
      /\ OneRegimePerM
      /\ \A y \in YieldedSet :
           /\ LeastPow2(nargs.M) >= 32 => y.kwargs.SPLIT_K <= 8
           /\ LeastPow2(nargs.M) <= 16 => y.kwargs.SPLIT_K >= 2

\* a candidate with nominal SPLIT_K = 16 was yielded with SPLIT_K = 8
C19_Witness ==
    /\ SplitKSearch /\ pc = "pruned"
    /\ LeastPow2(nargs.M) >= 32
    /\ \E i \in 1..Len(configs) :
         /\ configs[i].kwargs.SPLIT_K = 16
         /\ ~ splitK_rejected(configs[i], nargs)
         /\ splitK_yield(configs[i], nargs) \in YieldedSet
         /\ splitK_yield(configs[i], nargs).kwargs.SPLIT_K = 8

\* the candidate passes the area and divisibility filters
PassesShapeFilters(c) ==
    /\ c.kwargs.BLOCK_SIZE_K * c.kwargs.BLOCK_SIZE_N <= 4096 * 8
    /\ splitK_divisible(c, nargs)

\* C20: on the search path of the split-K pruner, with elements_per_sample
\* = 1 no yielded configuration has num_stages = 1; with elements_per_sample
\* > 1 every candidate that passes the area and divisibility filters is
\* yielded (itself or an earlier candidate with the same effective tuple),
\* whatever its num_stages.
C20_StagesFilter ==
    SplitKSearch =>
      /\ nargs.elements_per_sample = 1 =>
           \A y \in YieldedSet : y.num_stages # 1
      /\ nargs.elements_per_sample > 1 =>
           \A i \in 1..Len(configs) :
              PassesShapeFilters(configs[i]) =>
                \E y \in YieldedSet :
                   EffectiveTuple(y) = EffectiveTuple(splitK_yield(configs[i], nargs))

\* with elements_per_sample = 1 a one-stage candidate that passes the other
\* filters was skipped and a two-stage candidate was yielded
C20_Witness ==
    /\ SplitKSearch /\ pc = "pruned"
    /\ nargs.elements_per_sample = 1
    /\ Len(configs) = 2 /\ Len(yielded) = 1
    /\ configs[1].num_stages = 1 /\ PassesShapeFilters(configs[1])
    /\ yielded[1].num_stages = 2

\* BLOCK_SIZE_K * BLOCK_SIZE_N of a configuration
TileArea(kw) == kw.BLOCK_SIZE_K * kw.BLOCK_SIZE_N

\* the cap the claim states: 32768
AreaCap == 32768

\* the candidate passes the divisibility and the num_stages filters
PassesOtherFilters(c) ==
    /\ splitK_divisible(c, nargs)
    /\ ~ (nargs.elements_per_sample = 1 /\ c.num_stages = 1)

\* no other candidate examined reduces to the effective tuple of configs[i]
OnlyCandidateOfItsTuple(i) ==
    \A j \in 1..Len(configs) :
        j # i => splitK_key(configs[j], nargs) # splitK_key(configs[i], nargs)

YieldedAreaCapped == \A y \in YieldedSet : TileArea(y.kwargs) <= AreaCap

\* C21 (as claimed): every configuration yielded on the search path of the
\* split-K pruner has BLOCK_SIZE_K * BLOCK_SIZE_N <= 32768, and a candidate
\* is rejected for area exactly when the area of the configuration it would
\* yield, with BLOCK_SIZE_K clamped to group_size, exceeds 32768.
C21_AreaCapAfterClamp ==
    SplitKSearch =>
      /\ YieldedAreaCapped
      /\ \A i \in 1..Len(configs) :
           (PassesOtherFilters(configs[i]) /\ OnlyCandidateOfItsTuple(i)) =>
             ((splitK_yield(configs[i], nargs) \notin YieldedSet)
                <=> TileArea(splitK_yield(configs[i], nargs).kwargs) > AreaCap)

\* C21 (amended): every configuration yielded on the search path of the
\* split-K pruner has BLOCK_SIZE_K * BLOCK_SIZE_N <= 32768, and a candidate
\* is rejected for area exactly when its nominal BLOCK_SIZE_K *
\* BLOCK_SIZE_N, before BLOCK_SIZE_K is clamped to group_size, exceeds 32768.
C21_AreaCapNominal ==
    SplitKSearch =>
      /\ YieldedAreaCapped
      /\ \A i \in 1..Len(configs) :
           (PassesOtherFilters(configs[i]) /\ OnlyCandidateOfItsTuple(i)) =>
             ((splitK_yield(configs[i], nargs) \notin YieldedSet)
                <=> TileArea(configs[i].kwargs) > AreaCap)

\* a candidate of nominal area 256 * 256 whose clamped area is 32 * 256 was
\* rejected, and a candidate of area 32 * 256 was yielded
C21_Witness ==
    /\ SplitKSearch /\ pc = "pruned"
    /\ Len(configs) = 2 /\ Len(yielded) = 1
    /\ PassesOtherFilters(configs[1]) /\ OnlyCandidateOfItsTuple(1)
    /\ TileArea(configs[1].kwargs) = 65536
    /\ TileArea(splitK_yield(configs[1], nargs).kwargs) = 8192
    /\ TileArea(yielded[1].kwargs) = 8192

\* the tuning parameters and the problem a GEMV instance sees
gemv_InstanceArgs(c, na) ==
    [BLOCK_SIZE_K |-> c.kwargs.BLOCK_SIZE_K, K |-> na.K, group_size |-> na.group_size,
     kind |-> "GEMV_REVSPLITK"]

\* C22 (as claimed): for every configuration the GEMV pruner yields and
\* every instance j of the second grid axis, the 2 * BLOCK_SIZE_K reduction
\* indices the instance processes are [2j * BLOCK_SIZE_K, (2j + 2) *
\* BLOCK_SIZE_K) and each lies in the metadata group k_m the instance loads
\* once: floor(k / group_size) = k_m, for any group_size.
C22_GemvOneGroup ==
    matmul = "GEMV_REVSPLITK" =>
      \A y \in YieldedSet :
        LET L == gemv_InstanceArgs(y, nargs)
        IN  \A j \in 0..(GridK(L) - 1) :
              /\ gemv_Indices(L, j)
                   = (2 * j * L.BLOCK_SIZE_K)..((2 * j + 2) * L.BLOCK_SIZE_K - 1)
              /\ \A k \in gemv_Indices(L, j) : k \div L.group_size = gemv_k_m(L, j)

\* the claim for the group sizes that are multiples of 2 * BLOCK_SIZE_K
C22_GemvOneGroupAligned ==
    matmul = "GEMV_REVSPLITK" =>
      \A y \in YieldedSet :
        LET L == gemv_InstanceArgs(y, nargs)
        IN  L.group_size % (2 * L.BLOCK_SIZE_K) = 0 =>
              \A j \in 0..(GridK(L) - 1) :
                 \A k \in gemv_Indices(L, j) : k \div L.group_size = gemv_k_m(L, j)

\* the tuning parameters and the problem an instance of the tiled kernel sees
splitK_InstanceArgs(c, na) ==
    [BLOCK_SIZE_K |-> c.kwargs.BLOCK_SIZE_K, SPLIT_K |-> c.kwargs.SPLIT_K,
     A_load_order |-> c.kwargs.A_load_order, K |-> na.K,
     group_size |-> na.group_size, kind |-> "GEMM_SPLITK"]

\* C23 (as claimed): in the tiled kernel, for every configuration with
\* K % (BLOCK_SIZE_K * SPLIT_K) = 0 and BLOCK_SIZE_K <= group_size, at
\* iteration k of instance pid_k the metadata row k_m the iteration loads is
\* floor(koff / group_size) for every reduction index koff of the K-tile it
\* processes.
C23_TiledOwnGroup ==
    matmul = "GEMM_SPLITK" =>
      \A y \in YieldedSet :
        splitK_Legal(y, nargs) =>
          LET L == splitK_InstanceArgs(y, nargs)
          IN  \A x \in splitK_Steps(L) :
                splitK_a_col(L, x[1], x[2], x[3]) \div L.group_size
                  = splitK_k_m(L, x[1], x[2])

\* the claim for the group sizes that are multiples of BLOCK_SIZE_K
C23_TiledOwnGroupAligned ==
    matmul = "GEMM_SPLITK" =>
      \A y \in YieldedSet :
        (splitK_Legal(y, nargs) /\ nargs.group_size % y.kwargs.BLOCK_SIZE_K = 0) =>
          LET L == splitK_InstanceArgs(y, nargs)
          IN  \A x \in splitK_Steps(L) :
                splitK_a_col(L, x[1], x[2], x[3]) \div L.group_size
                  = splitK_k_m(L, x[1], x[2])

\* the tuning parameters a pruner may change
Clamped ==
    [GEMM_SPLITK |-> {"BLOCK_SIZE_M", "BLOCK_SIZE_K", "SPLIT_K"},
     GEMV_REVSPLITK |-> {"BLOCK_SIZE_M", "BLOCK_SIZE_N", "BLOCK_SIZE_K"}]

\* y has the parameters of candidate c, except the clamped ones
DerivesFrom(y, c) ==
    /\ DOMAIN y.kwargs = DOMAIN c.kwargs
    /\ \A f \in DOMAIN c.kwargs \ Clamped[matmul] : y.kwargs[f] = c.kwargs[f]
    /\ y.num_stages = c.num_stages
    /\ y.num_warps = c.num_warps

\* C28: on the search path every yielded configuration derives from one
\* candidate examined and differs from it at most in BLOCK_SIZE_M,
\* BLOCK_SIZE_K and SPLIT_K (split-K pruner) or BLOCK_SIZE_M, BLOCK_SIZE_N
\* and BLOCK_SIZE_K (GEMV pruner), every other tuning parameter, num_stages
\* and num_warps being the candidate's; the candidates are still the
\* members of the grid they were; and there are never more yields than
\* candidates examined.
C28_PrunerFrame ==
    (matmul \in {"GEMM_SPLITK", "GEMV_REVSPLITK"} /\ OnSearchPath) =>
      /\ Len(yielded) <= Len(configs)
      /\ \A k \in 1..Len(yielded) :
           \E i \in 1..Len(configs) :
              /\ yielded[k] = PrunerYield(configs[i])
              /\ DerivesFrom(yielded[k], configs[i])
      /\ \A i \in 1..Len(configs) : configs[i] \in AutotuneGrid[matmul]

\* a candidate was yielded with BLOCK_SIZE_M, BLOCK_SIZE_K and SPLIT_K all
\* changed, and a second candidate was rejected
C28_Witness ==
    /\ SplitKSearch /\ pc = "pruned"
    /\ Len(configs) = 2 /\ Len(yielded) = 1
    /\ DerivesFrom(yielded[1], configs[1])
    /\ configs[1].kwargs.BLOCK_SIZE_M = 64 /\ yielded[1].kwargs.BLOCK_SIZE_M = 32
    /\ configs[1].kwargs.BLOCK_SIZE_K = 256 /\ yielded[1].kwargs.BLOCK_SIZE_K = 32
    /\ configs[1].kwargs.SPLIT_K = 16 /\ yielded[1].kwargs.SPLIT_K = 8
    /\ configs[1].num_stages = 2

\* the fields of a stored dict that are not tuning parameters
MetaFields == {"num_stages", "num_warps", "num_ctas"}

\* the stored dicts are whole, and a lookup now yields what the run yielded
CacheIntact ==
    /\ \A r \in cache : MetaFields \subseteq DOMAIN r.cfg
    /\ (SplitKPrunerCalled /\ pc # "prune" /\ CacheHits(cache, nargs) # {}) =>
          \E r \in CacheHits(cache, nargs) : yielded = <<splitK_cached_config(r.cfg)>>

\* C29: no step of a run of the split-K pruner changes the configuration
\* cache, on a hit and on a miss; after a lookup the stored dict still has
\* its num_stages, num_warps and num_ctas fields, so that a further lookup
\* of the same signature yields the same configuration.
C29_CacheUnchanged ==
    [](matmul = "GEMM_SPLITK" => CacheIntact)
      /\ [][matmul = "GEMM_SPLITK" => cache' = cache]_vars

\* a lookup has hit and the stored dict is whole
C29_Witness ==
    /\ SplitKPrunerCalled /\ pc = "pruned"
    /\ \E r \in CacheHits(cache, nargs) :
         /\ yielded = <<splitK_cached_config(r.cfg)>>
         /\ r.cfg.num_stages = 2 /\ r.cfg.num_warps = 4 /\ r.cfg.num_ctas = 1
         /\ "num_stages" \notin DOMAIN yielded[1].kwargs

====
